---- MODULE Spec2Model ----
(***************************************************************************)
(* avrogencpp (lang/c++/impl/avrogencpp.cc): the C++ code generator of     *)
(* Avro.  CodeGen::generate walks a validated schema graph twice: once to  *)
(* emit the type declarations (generateType and the functions it calls)    *)
(* and once to emit the codec_traits specializations (generateTraits).     *)
(* The model runs that code as a machine with an explicit call stack, and  *)
(* also gives the meaning of the emitted codecs (encode and decode).       *)
(***************************************************************************)
EXTENDS Integers, Sequences, FiniteSets, TLC

VARIABLES
    schema,        \* the node table of the ValidSchema; node 1 is schema.root()
    ns_,           \* CodeGen::ns_
    noUnion_,      \* CodeGen::noUnion_
    inNamespace_,  \* CodeGen::inNamespace_
    os_,           \* CodeGen::os_, the items appended so far
    done,          \* CodeGen::done : map<NodePtr, string>
    doing,         \* CodeGen::doing : set<NodePtr>
    unionNumber_,  \* UnionCodeTracker::unionNumber_
    unionBranchNameMapping_,   \* UnionCodeTracker::unionBranchNameMapping_
    generatedUnionTraits_,     \* UnionCodeTracker::generatedUnionTraits_
    pendingGettersAndSetters,  \* CodeGen::pendingGettersAndSetters
    pendingConstructors,       \* CodeGen::pendingConstructors
    stack,         \* the C++ call stack below generate(); the running call first
    ret,           \* the value the last call returned
    phase,         \* the position of generate()
    flushed,       \* how many entries of the pending list being flushed are out
    run            \* the last run of an emitted codec (encode or decode)

vars == <<schema, ns_, noUnion_, inNamespace_, os_, done, doing, unionNumber_,
          unionBranchNameMapping_, generatedUnionTraits_,
          pendingGettersAndSetters, pendingConstructors, stack, ret, phase,
          flushed, run>>

genVars == <<schema, ns_, noUnion_, inNamespace_, os_, done, doing, unionNumber_,
             unionBranchNameMapping_, generatedUnionTraits_,
             pendingGettersAndSetters, pendingConstructors, stack, ret, phase,
             flushed>>

\* The depth of the C++ call stack at which the process runs out of stack.
MaxStack == 40

-----------------------------------------------------------------------------
(* Schema graphs (avro::Node).  A schema is written as a tree, the way the  *)
(* JSON text nests, and flattened into a table of nodes: the index of a     *)
(* node is its identity (its NodePtr).  A use of an already defined name is *)
(* an AVRO_SYMBOLIC node that resolves to the defining node.                *)

PrimitiveTypes == {"AVRO_STRING", "AVRO_BYTES", "AVRO_INT", "AVRO_LONG",
                   "AVRO_FLOAT", "AVRO_DOUBLE", "AVRO_BOOL", "AVRO_NULL"}

NamedTypes == {"AVRO_RECORD", "AVRO_ENUM", "AVRO_FIXED"}

TPrim(t) == [type |-> t, name |-> "", names |-> <<>>, size |-> 0, kids |-> <<>>]
TNull == TPrim("AVRO_NULL")
TInt == TPrim("AVRO_INT")
TString == TPrim("AVRO_STRING")
TFixed(nm, sz) ==
    [type |-> "AVRO_FIXED", name |-> nm, names |-> <<>>, size |-> sz, kids |-> <<>>]
TEnum(nm, syms) ==
    [type |-> "AVRO_ENUM", name |-> nm, names |-> syms, size |-> 0, kids |-> <<>>]
TRecord(nm, fieldNames, fieldTypes) ==
    [type |-> "AVRO_RECORD", name |-> nm, names |-> fieldNames, size |-> 0,
     kids |-> fieldTypes]
TArray(t) ==
    [type |-> "AVRO_ARRAY", name |-> "", names |-> <<>>, size |-> 0, kids |-> <<t>>]
\* a map node has two leaves: the string key and the value (leafAt(1))
TMap(t) ==
    [type |-> "AVRO_MAP", name |-> "", names |-> <<>>, size |-> 0,
     kids |-> <<TString, t>>]
TUnion(ts) ==
    [type |-> "AVRO_UNION", name |-> "", names |-> <<>>, size |-> 0, kids |-> ts]
TRef(nm) ==
    [type |-> "AVRO_SYMBOLIC", name |-> nm, names |-> <<>>, size |-> 0, kids |-> <<>>]

RECURSIVE TreeSize(_)
TreeSize(t) ==
    LET RECURSIVE Sum(_)
        Sum(i) == IF i > Len(t.kids) THEN 0 ELSE TreeSize(t.kids[i]) + Sum(i + 1)
    IN 1 + Sum(1)

\* The nodes of tree t in pre-order, the root getting the index base.
RECURSIVE Flatten(_, _)
Flatten(t, base) ==
    LET RECURSIVE At(_)
        \* the index of kid i
        At(i) == IF i = 1 THEN base + 1 ELSE At(i - 1) + TreeSize(t.kids[i - 1])
        RECURSIVE Rest(_)
        Rest(i) == IF i > Len(t.kids) THEN <<>>
                   ELSE Flatten(t.kids[i], At(i)) \o Rest(i + 1)
    IN <<[type |-> t.type, name |-> t.name, names |-> t.names, size |-> t.size,
          leaves |-> [i \in 1..Len(t.kids) |-> At(i)]]>> \o Rest(1)

MkSchema(t) == Flatten(t, 1)

Nodes(s) == 1..Len(s)

\* A name is in scope at a use when a node before it in the text defines it.
Defines(s, i, nm) == s[i].type \in NamedTypes /\ s[i].name = nm

\* Unions hold no union directly, at most one branch of each unnamed type and
\* at most one branch of each name (the Avro rule the schema compiler enforces).
BranchKey(s, i) ==
    IF s[i].type \in NamedTypes \cup {"AVRO_SYMBOLIC"} THEN s[i].name ELSE s[i].type

ValidSchemaTable(s) ==
    /\ \A i, j \in Nodes(s) :
         (i # j /\ s[i].type \in NamedTypes /\ s[j].type \in NamedTypes)
            => s[i].name # s[j].name
    /\ \A i \in Nodes(s) :
         s[i].type = "AVRO_SYMBOLIC" => \E j \in 1..(i - 1) : Defines(s, j, s[i].name)
    /\ \A i \in Nodes(s) :
         s[i].type = "AVRO_UNION" =>
            /\ Len(s[i].leaves) >= 1
            /\ \A a, b \in 1..Len(s[i].leaves) :
                 /\ s[s[i].leaves[a]].type # "AVRO_UNION"
                 /\ a # b => BranchKey(s, s[i].leaves[a]) # BranchKey(s, s[i].leaves[b])
    /\ \A i \in Nodes(s) : s[i].type = "AVRO_ENUM" => Len(s[i].names) >= 1

\* The node that node n of table s stands for: itself, or the definition of the
\* name when n is symbolic.
ResolveIn(s, n) ==
    IF s[n].type = "AVRO_SYMBOLIC"
    THEN CHOOSE j \in 1..(n - 1) : Defines(s, j, s[n].name)
    ELSE n

\* The records that record i holds by value: its fields that are records.
RecordFields(s, i) ==
    {j \in Nodes(s) : /\ s[j].type = "AVRO_RECORD"
                      /\ \E k \in 1..Len(s[i].leaves) : ResolveIn(s, s[i].leaves[k]) = j}

RECURSIVE HeldBy(_, _)
\* the records held by value, at any depth, by the records of set rs
HeldBy(s, rs) ==
    LET more == rs \cup UNION {RecordFields(s, i) : i \in rs}
    IN IF more = rs THEN rs ELSE HeldBy(s, more)

\* Some record holds itself by value: a cycle through no array, map or union.
HasRecordOnlyCycle(s) ==
    \E i \in Nodes(s) :
        s[i].type = "AVRO_RECORD" /\ i \in HeldBy(s, RecordFields(s, i))

-----------------------------------------------------------------------------
(* Names.                                                                   *)

cppReservedWords ==
    {"alignas", "alignof", "and", "and_eq", "asm", "auto", "bitand", "bitor", "bool",
     "break", "case", "catch", "char", "char8_t", "char16_t", "char32_t", "class",
     "compl", "concept", "const", "consteval", "constexpr", "constinit", "const_cast",
     "continue", "co_await", "co_return", "co_yield", "decltype", "default", "delete",
     "do", "double", "dynamic_cast", "else", "enum", "explicit", "export", "extern",
     "false", "float", "for", "friend", "goto", "if", "import", "inline", "int", "long",
     "module", "mutable", "namespace", "new", "noexcept", "not", "not_eq", "nullptr",
     "operator", "or", "or_eq", "private", "protected", "public", "reflexpr",
     "register", "reinterpret_cast", "requires", "return", "short", "signed", "sizeof",
     "static", "static_assert", "static_cast", "struct", "switch", "synchronized",
     "template", "this", "thread_local", "throw", "true", "try", "typedef", "typeid",
     "typename", "union", "unsigned", "using", "virtual", "void", "volatile",
     "wchar_t", "while", "xor", "xor_eq"}

decorate(name) == IF name \in cppReservedWords THEN name \o "_" ELSE name

\* avro::Name::simpleName: the name without its namespace.  The names of the
\* schemas that have a namespace are listed; any other name has none.
simpleName(nm) ==
    CASE nm = "a.Foo" -> "Foo"
      [] nm = "b.Foo" -> "Foo"
      [] OTHER -> nm

\* decorate(const avro::Name &name)
decorateName(nm) == decorate(simpleName(nm))

fullname(name) == IF ns_ = "" THEN name ELSE ns_ \o "::" \o name

\* avro::resolveSymbol: the node a symbolic node stands for.
resolveSymbol(n) == ResolveIn(schema, n)

\* n->leafAt(i) and n->leaves(), i counted from 0 as in the C++ code.
leafAt(n, i) == schema[n].leaves[i + 1]
leaves(n) == Len(schema[n].leaves)
nameAt(n, i) == schema[n].names[i + 1]
typeOf(n) == schema[n].type

\* done[n] of the C++ map read with operator[]: a missing key reads as "".
DoneAt(n) == IF n \in DOMAIN done THEN done[n] ELSE ""

vectorOf(dn) == "std::vector<" \o dn \o " >"
mapOf(dn) == "std::map<std::string, " \o dn \o " >"

RECURSIVE cppTypeOf(_)
cppTypeOf(n) ==
    CASE typeOf(n) = "AVRO_STRING" -> "std::string"
      [] typeOf(n) = "AVRO_BYTES" -> "std::vector<uint8_t>"
      [] typeOf(n) = "AVRO_INT" -> "int32_t"
      [] typeOf(n) = "AVRO_LONG" -> "int64_t"
      [] typeOf(n) = "AVRO_FLOAT" -> "float"
      [] typeOf(n) = "AVRO_DOUBLE" -> "double"
      [] typeOf(n) = "AVRO_BOOL" -> "bool"
      [] typeOf(n) \in {"AVRO_RECORD", "AVRO_ENUM"} ->
           IF inNamespace_ THEN decorateName(schema[n].name)
           ELSE fullname(decorateName(schema[n].name))
      [] typeOf(n) = "AVRO_ARRAY" -> vectorOf(cppTypeOf(leafAt(n, 0)))
      [] typeOf(n) = "AVRO_MAP" -> mapOf(cppTypeOf(leafAt(n, 1)))
      [] typeOf(n) = "AVRO_FIXED" ->
           "std::array<uint8_t, " \o ToString(schema[n].size) \o ">"
      [] typeOf(n) = "AVRO_SYMBOLIC" -> cppTypeOf(resolveSymbol(n))
      [] typeOf(n) = "AVRO_UNION" -> fullname(DoneAt(n))
      [] typeOf(n) = "AVRO_NULL" -> "avro::null"
      [] OTHER -> "$Undefined$"

\* The union nodes cppTypeOf(n) looks up in done (operator[] inserts a missing one).
RECURSIVE cppTypeOfLookups(_)
cppTypeOfLookups(n) ==
    CASE typeOf(n) = "AVRO_ARRAY" -> cppTypeOfLookups(leafAt(n, 0))
      [] typeOf(n) = "AVRO_MAP" -> cppTypeOfLookups(leafAt(n, 1))
      [] typeOf(n) = "AVRO_SYMBOLIC" -> cppTypeOfLookups(resolveSymbol(n))
      [] typeOf(n) = "AVRO_UNION" -> {n}
      [] OTHER -> {}

RECURSIVE cppNameOf(_)
cppNameOf(n) ==
    CASE typeOf(n) = "AVRO_NULL" -> "null"
      [] typeOf(n) = "AVRO_STRING" -> "string"
      [] typeOf(n) = "AVRO_BYTES" -> "bytes"
      [] typeOf(n) = "AVRO_INT" -> "int"
      [] typeOf(n) = "AVRO_LONG" -> "long"
      [] typeOf(n) = "AVRO_FLOAT" -> "float"
      [] typeOf(n) = "AVRO_DOUBLE" -> "double"
      [] typeOf(n) = "AVRO_BOOL" -> "bool"
      [] typeOf(n) \in {"AVRO_RECORD", "AVRO_ENUM", "AVRO_FIXED"} ->
           decorateName(schema[n].name)
      [] typeOf(n) = "AVRO_ARRAY" -> "array"
      [] typeOf(n) = "AVRO_MAP" -> "map"
      [] typeOf(n) = "AVRO_SYMBOLIC" -> cppNameOf(resolveSymbol(n))
      [] OTHER -> "$Undefined$"

\* The schema file's name after makeCanonical(s, false), as generateNewUnionName
\* uses it: every character that is no letter and no digit is '_'.
schemaFileCanonical == "x_json"

-----------------------------------------------------------------------------
(* The output stream.  One item stands for the text of one declaration or   *)
(* one block of the header; node is the schema node it was written for.     *)

Item(t, node, name, args, aux, idx) ==
    [t |-> t, node |-> node, name |-> name, args |-> args, aux |-> aux, idx |-> idx]

Emit(items) == os_' = os_ \o items

\* A call frame: the function, its node argument, where it stands, its loop
\* counter i and its locals (types, names; re: the union was found in doing);
\* decl: the function was entered by 'return f(nn)' of generateDeclaration.
Frame(fn, n) ==
    [fn |-> fn, n |-> n, pc |-> 0, i |-> 0, types |-> <<>>, names |-> <<>>,
     re |-> FALSE, decl |-> FALSE]

top == stack[1]

Running(fn) ==
    /\ phase \in {"types", "traits"}
    /\ stack # <<>>
    /\ Len(stack) < MaxStack
    /\ top.fn = fn

\* return v to the caller
Return(v) == stack' = Tail(stack) /\ ret' = v
\* return from a void function
ReturnVoid == stack' = Tail(stack) /\ ret' = ret
\* call f, the running frame continuing as cont when f returns
Call(cont, f) == stack' = <<f, cont>> \o Tail(stack) /\ ret' = ret
\* 'return f(...)': the frame of f takes the place of the running frame
TailCall(f) == stack' = <<f>> \o Tail(stack) /\ ret' = ret

tracker == <<unionNumber_, unionBranchNameMapping_, generatedUnionTraits_>>
pending == <<pendingGettersAndSetters, pendingConstructors>>
fixed == <<schema, ns_, noUnion_, inNamespace_, phase, flushed, run>>

-----------------------------------------------------------------------------
(* The type emitter.                                                        *)

\* MemoHit with the lookup of lines 464-467 left out: every call expands.
MemoHitNever(nn) == FALSE

\* generateType, lines 464-467: the memo table has the node.
MemoHit(nn) == nn \in DOMAIN done

\* doGenerateType lines 488 and 500, generateUnionType line 370-371: the node
\* is being expanded by a frame further down the stack.
\* the test of doing that never finds the node
InProgressNever(n) == FALSE

InProgress(n) == n \in doing

\* generateType that keeps no name for a union
memoizeButUnions(nn, result) ==
    IF typeOf(nn) = "AVRO_UNION" THEN done ELSE (nn :> result) @@ done

\* Line 469: done[nn] = result
memoize(nn, result) == (nn :> result) @@ done

\* string CodeGen::generateType(const NodePtr &n)
generateType ==
    /\ Running("generateType")
    /\ LET nn == IF typeOf(top.n) = "AVRO_SYMBOLIC" THEN resolveSymbol(top.n)
                 ELSE top.n
       IN \/ /\ top.pc = 0
             /\ MemoHit(nn)
             /\ Return(done[nn])
             /\ UNCHANGED done
          \/ /\ top.pc = 0
             /\ ~MemoHit(nn)
             /\ Call([top EXCEPT !.pc = 1], Frame("doGenerateType", nn))
             /\ UNCHANGED done
          \/ /\ top.pc = 1
             /\ done' = memoize(nn, ret)
             /\ Return(ret)
    /\ UNCHANGED <<os_, doing, tracker, pending, fixed>>

\* string CodeGen::doGenerateType(const NodePtr &n)
doGenerateType ==
    /\ Running("doGenerateType")
    /\ LET n == top.n
           ln == leafAt(n, IF typeOf(n) = "AVRO_ARRAY" THEN 0 ELSE 1)
           wrap(dn) == IF typeOf(n) = "AVRO_ARRAY" THEN vectorOf(dn) ELSE mapOf(dn)
       IN \/ /\ top.pc = 0
             /\ typeOf(n) \in PrimitiveTypes \cup {"AVRO_FIXED"}
             /\ Return(cppTypeOf(n))
             /\ UNCHANGED doing
          \/ /\ top.pc = 0
             /\ typeOf(n) \in {"AVRO_ARRAY", "AVRO_MAP"}
             /\ IF ~InProgress(n)
                THEN /\ doing' = doing \cup {n}
                     /\ Call([top EXCEPT !.pc = 1], Frame("generateType", ln))
                ELSE /\ doing' = doing
                     /\ Call([top EXCEPT !.pc = 2], Frame("generateDeclaration", ln))
          \/ /\ top.pc = 0
             /\ typeOf(n) = "AVRO_RECORD"
             /\ TailCall(Frame("generateRecordType", n))
             /\ UNCHANGED doing
          \/ /\ top.pc = 0
             /\ typeOf(n) = "AVRO_ENUM"
             /\ TailCall(Frame("generateEnumType", n))
             /\ UNCHANGED doing
          \/ /\ top.pc = 0
             /\ typeOf(n) = "AVRO_UNION"
             /\ TailCall(Frame("generateUnionType", n))
             /\ UNCHANGED doing
          \/ /\ top.pc = 1
             /\ doing' = doing \ {n}
             /\ Return(wrap(ret))
          \/ /\ top.pc = 2
             /\ Return(wrap(ret))
             /\ UNCHANGED doing
    /\ UNCHANGED <<os_, done, tracker, pending, fixed>>

\* string CodeGen::generateEnumType(const NodePtr &n)
generateEnumType ==
    /\ Running("generateEnumType")
    /\ LET n == top.n
           s == decorateName(schema[n].name)
       IN /\ Emit(<<Item("enum", n, s,
                         [i \in 1..Len(schema[n].names) |-> decorate(schema[n].names[i])],
                         <<>>, 0)>>)
          /\ Return(s)
    /\ UNCHANGED <<done, doing, tracker, pending, fixed>>

\* The member types of the struct: a union field is named by its typedef
\* unless typedefs are off (lines 254-260, 272).
memberTypes(n, types) ==
    [i \in 1..Len(types) |->
        IF ~noUnion_ /\ typeOf(leafAt(n, i - 1)) = "AVRO_UNION"
        THEN nameAt(n, i - 1) \o "_t" ELSE types[i]]

\* string CodeGen::generateRecordType(const NodePtr &n)
generateRecordType ==
    /\ Running("generateRecordType")
    /\ LET n == top.n
           c == leaves(n)
           decoratedName == decorateName(schema[n].name)
           \* the locals once the call of field top.i has returned
           got == [top EXCEPT !.types = Append(top.types, ret), !.i = top.i + 1]
           \* lines 247-295, with the field types in types
           finish(types) ==
               IF n \in DOMAIN done
               THEN /\ Return(done[n])
                    /\ UNCHANGED os_
               ELSE /\ Emit(<<Item("struct", n, decoratedName, types,
                                   memberTypes(n, types), c)>>)
                    /\ Return(decoratedName)
       IN \/ /\ top.pc = 0
             /\ c > 0
             /\ Call([top EXCEPT !.pc = 1], Frame("generateType", leafAt(n, 0)))
             /\ UNCHANGED os_
          \/ /\ top.pc = 0
             /\ c = 0
             /\ finish(<<>>)
          \/ /\ top.pc = 1
             /\ got.i < c
             /\ Call(got, Frame("generateType", leafAt(n, got.i)))
             /\ UNCHANGED os_
          \/ /\ top.pc = 1
             /\ got.i >= c
             /\ finish(got.types)
    /\ UNCHANGED <<done, doing, tracker, pending, fixed>>

-----------------------------------------------------------------------------
(* UnionCodeTracker.                                                        *)

\* getExistingUnionName with a key that forgets the order of the branches.
getExistingUnionNameAnyOrder(unionBranches) ==
    LET same == {k \in DOMAIN unionBranchNameMapping_ :
                    {k[i] : i \in 1..Len(k)}
                        = {unionBranches[i] : i \in 1..Len(unionBranches)}}
    IN IF same # {} THEN <<unionBranchNameMapping_[CHOOSE k \in same : TRUE]>>
       ELSE <<>>

\* std::optional<std::string> UnionCodeTracker::getExistingUnionName(...):
\* <<name>> when the branch list is registered, <<>> (nullopt) when it is not.
getExistingUnionName(unionBranches) ==
    IF unionBranches \in DOMAIN unionBranchNameMapping_
    THEN <<unionBranchNameMapping_[unionBranches]>>
    ELSE <<>>

\* The name UnionCodeTracker::generateNewUnionName returns (line 1043).
newUnionName == schemaFileCanonical \o "_Union__" \o ToString(unionNumber_) \o "__"

\* std::string UnionCodeTracker::generateNewUnionName(...): the state it leaves.
generateNewUnionName(unionBranches) ==
    /\ unionNumber_' = unionNumber_ + 1
    /\ unionBranchNameMapping_' =
          IF unionBranches \in DOMAIN unionBranchNameMapping_
          THEN unionBranchNameMapping_
          ELSE (unionBranches :> newUnionName) @@ unionBranchNameMapping_

\* bool UnionCodeTracker::unionTraitsAlreadyGenerated(...)
unionTraitsAlreadyGenerated(unionClassName) ==
    unionClassName \in generatedUnionTraits_

\* void UnionCodeTracker::setTraitsGenerated(...)
setTraitsGenerated(unionClassName) ==
    generatedUnionTraits_' = generatedUnionTraits_ \cup {unionClassName}

-----------------------------------------------------------------------------
(* Unions and forward declarations.                                         *)

\* Lines 411-419: the first of name_2, name_3, ... that is not used yet.
RECURSIVE escapedName(_, _, _)
escapedName(branch_name, used, postfix) ==
    LET escaped_name == branch_name \o "_" \o ToString(postfix)
    IN IF escaped_name \in used
       THEN escapedName(branch_name, used, postfix + 1)
       ELSE escaped_name

\* Lines 406-422: the enumerators of enum class Branch, in branch order.
RECURSIVE branchNames(_, _, _)
branchNames(names, i, out) ==
    IF i > Len(names) THEN out
    ELSE LET used == {out[k] : k \in 1..Len(out)}
             d == decorate(names[i])
             branch_name == IF d \in used THEN escapedName(d, used, 2) ELSE d
         IN branchNames(names, i + 1, Append(out, branch_name))

\* newGettersAndSetters without the test for the null branch: the null branch
\* gets an accessor entry like any other.
RECURSIVE newGettersAndSettersNullToo(_, _, _, _, _)
newGettersAndSettersNullToo(n, result, types, names, i) ==
    IF i >= leaves(n) THEN <<>>
    ELSE <<[structName |-> result, type |-> types[i + 1],
            name |-> names[i + 1], idx |-> i]>>
         \o newGettersAndSettersNullToo(n, result, types, names, i + 1)

\* Lines 428-448: the accessors the union struct declares, and with them the
\* entries added to pendingGettersAndSetters, in branch order.
RECURSIVE newGettersAndSetters(_, _, _, _, _)
newGettersAndSetters(n, result, types, names, i) ==
    IF i >= leaves(n) THEN <<>>
    ELSE (IF typeOf(leafAt(n, i)) = "AVRO_NULL" THEN <<>>
          ELSE <<[structName |-> result, type |-> types[i + 1],
                  name |-> names[i + 1], idx |-> i]>>)
         \o newGettersAndSetters(n, result, types, names, i + 1)

\* unionStructText with the accessor bodies and the constructor written in
\* place, right after the struct, instead of being left pending.
unionStructTextWithBodies(n, result, types, names) ==
    <<Item("union", n, result, types, branchNames(names, 1, <<>>), leaves(n))>>
    \o [k \in 1..Len(newGettersAndSetters(n, result, types, names, 0)) |->
          LET it == newGettersAndSetters(n, result, types, names, 0)[k]
          IN Item("getset", 0, it.structName, <<it.type, it.name>>, <<>>, it.idx)]
    \o <<Item("constructor", 0, result, <<types[1]>>, <<>>,
               IF typeOf(leafAt(n, 0)) # "AVRO_NULL" THEN 1 ELSE 0)>>

\* Lines 396-453: what the declaration of a new union struct appends to os_.
\* The accessor bodies and the constructor are not among it: they are pending.
unionStructText(n, result, types, names) ==
    <<Item("union", n, result, types, branchNames(names, 1, <<>>), leaves(n))>>

\* string CodeGen::generateUnionType(const NodePtr &n)
generateUnionType ==
    /\ Running("generateUnionType")
    /\ LET n == top.n
           c == leaves(n)
           callee == IF top.re THEN "generateDeclaration" ELSE "generateType"
           got == [top EXCEPT !.types = Append(top.types, ret),
                              !.names = Append(top.names, cppNameOf(leafAt(n, top.i))),
                              !.i = top.i + 1]
       IN \/ /\ top.pc = 0
             /\ IF InProgress(n)
                THEN /\ doing' = doing
                     /\ Call([top EXCEPT !.pc = 1, !.re = TRUE],
                             Frame("generateDeclaration", leafAt(n, 0)))
                ELSE /\ doing' = doing \cup {n}
                     /\ Call([top EXCEPT !.pc = 1, !.re = FALSE],
                             Frame("generateType", leafAt(n, 0)))
             /\ UNCHANGED <<os_, tracker, pending>>
          \/ /\ top.pc = 1
             /\ got.i < c
             /\ Call(got, Frame(callee, leafAt(n, got.i)))
             /\ UNCHANGED <<os_, doing, tracker, pending>>
          \/ /\ top.pc = 1
             /\ got.i >= c
             /\ doing' = IF top.re THEN doing ELSE doing \ {n}
             /\ stack' = <<[got EXCEPT !.pc = 2]>> \o Tail(stack)
             /\ ret' = ret
             /\ UNCHANGED <<os_, tracker, pending>>
          \/ /\ top.pc = 2
             /\ n \in DOMAIN done
             /\ Return(done[n])
             /\ UNCHANGED <<os_, doing, tracker, pending>>
          \/ /\ top.pc = 2
             /\ n \notin DOMAIN done
             /\ getExistingUnionName(top.types) # <<>>
             /\ Return(getExistingUnionName(top.types)[1])
             /\ UNCHANGED <<os_, doing, tracker, pending>>
          \/ /\ top.pc = 2
             /\ n \notin DOMAIN done
             /\ getExistingUnionName(top.types) = <<>>
             /\ LET result == newUnionName
                IN /\ generateNewUnionName(top.types)
                   /\ Emit(unionStructText(n, result, top.types, top.names))
                   /\ pendingGettersAndSetters' = pendingGettersAndSetters
                         \o newGettersAndSetters(n, result, top.types, top.names, 0)
                   /\ pendingConstructors' = Append(pendingConstructors,
                         [structName |-> result, memberName |-> top.types[1],
                          initMember |-> typeOf(leafAt(n, 0)) # "AVRO_NULL"])
                   /\ Return(result)
             /\ UNCHANGED <<doing, generatedUnionTraits_>>
    /\ UNCHANGED <<done, fixed>>

\* generateDeclaration of a record that writes nothing
forwardDeclarationNone(nn) == <<>>

\* Line 539: os_ << "struct " << cppTypeOf(nn) << ";\n"
forwardDeclaration(nn) == <<Item("forward", nn, cppTypeOf(nn), <<>>, <<>>, 0)>>

\* string CodeGen::generateDeclaration(const NodePtr &n)
generateDeclaration ==
    /\ Running("generateDeclaration")
    /\ LET nn == IF typeOf(top.n) = "AVRO_SYMBOLIC" THEN resolveSymbol(top.n)
                 ELSE top.n
       IN \/ /\ top.pc = 0
             /\ typeOf(nn) \in PrimitiveTypes \cup {"AVRO_FIXED"}
             /\ Return(cppTypeOf(nn))
             /\ UNCHANGED os_
          \/ /\ top.pc = 0
             /\ typeOf(nn) = "AVRO_ARRAY"
             /\ Call([top EXCEPT !.pc = 1], Frame("generateDeclaration", leafAt(nn, 0)))
             /\ UNCHANGED os_
          \/ /\ top.pc = 0
             /\ typeOf(nn) = "AVRO_MAP"
             /\ Call([top EXCEPT !.pc = 1], Frame("generateDeclaration", leafAt(nn, 1)))
             /\ UNCHANGED os_
          \/ /\ top.pc = 0
             /\ typeOf(nn) = "AVRO_RECORD"
             /\ Emit(forwardDeclaration(nn))
             /\ Return(cppTypeOf(nn))
          \/ /\ top.pc = 0
             /\ typeOf(nn) = "AVRO_ENUM"
             /\ TailCall([Frame("generateEnumType", nn) EXCEPT !.decl = TRUE])
             /\ UNCHANGED os_
          \/ /\ top.pc = 0
             /\ typeOf(nn) = "AVRO_UNION"
             /\ TailCall([Frame("generateUnionType", nn) EXCEPT !.decl = TRUE])
             /\ UNCHANGED os_
          \/ /\ top.pc = 1
             /\ Return(IF typeOf(nn) = "AVRO_ARRAY" THEN vectorOf(ret) ELSE mapOf(ret))
             /\ UNCHANGED os_
    /\ UNCHANGED <<done, doing, tracker, pending, fixed>>

-----------------------------------------------------------------------------
(* The serialization emitter.                                               *)

\* void CodeGen::generateTraits(const NodePtr &n)
generateTraits ==
    /\ Running("generateTraits")
    /\ LET n == top.n
       IN \/ /\ typeOf(n) = "AVRO_RECORD"
             /\ TailCall(Frame("generateRecordTraits", n))
          \/ /\ typeOf(n) = "AVRO_ENUM"
             /\ TailCall(Frame("generateEnumTraits", n))
          \/ /\ typeOf(n) = "AVRO_ARRAY"
             /\ TailCall(Frame("generateTraits", leafAt(n, 0)))
          \/ /\ typeOf(n) = "AVRO_MAP"
             /\ TailCall(Frame("generateTraits", leafAt(n, 1)))
          \/ /\ typeOf(n) = "AVRO_UNION"
             /\ TailCall(Frame("generateUnionTraits", n))
          \/ /\ typeOf(n) \in PrimitiveTypes \cup {"AVRO_FIXED", "AVRO_SYMBOLIC"}
             /\ ReturnVoid
    /\ UNCHANGED <<os_, done, doing, tracker, pending, fixed>>

\* void CodeGen::generateEnumTraits(const NodePtr &n)
generateEnumTraits ==
    /\ Running("generateEnumTraits")
    /\ LET n == top.n
           fn == fullname(decorateName(schema[n].name))
           last == decorate(nameAt(n, Len(schema[n].names) - 1))
       IN Emit(<<Item("enumcodec", n, fn, <<last>>, <<>>, 0)>>)
    /\ ReturnVoid
    /\ UNCHANGED <<done, doing, tracker, pending, fixed>>

\* generateRecordTraits with the codec of the record written before the loop
\* over its fields instead of after it.
generateRecordTraitsCodecFirst ==
    /\ Running("generateRecordTraits")
    /\ LET n == top.n
           c == leaves(n)
           fn == fullname(decorateName(schema[n].name))
           codec == Item("recordcodec", n, fn,
                         [i \in 1..c |-> decorate(schema[n].names[i])], <<>>, c)
       IN \/ /\ top.i < c
             /\ Call([top EXCEPT !.i = top.i + 1],
                     Frame("generateTraits", leafAt(n, top.i)))
             /\ IF top.i = 0 THEN Emit(<<codec>>) ELSE UNCHANGED os_
          \/ /\ top.i >= c
             /\ IF c = 0 THEN Emit(<<codec>>) ELSE UNCHANGED os_
             /\ ReturnVoid
    /\ UNCHANGED <<done, doing, tracker, pending, fixed>>

\* void CodeGen::generateRecordTraits(const NodePtr &n)
generateRecordTraits ==
    /\ Running("generateRecordTraits")
    /\ LET n == top.n
           c == leaves(n)
           fn == fullname(decorateName(schema[n].name))
       IN \/ /\ top.i < c
             /\ Call([top EXCEPT !.i = top.i + 1],
                     Frame("generateTraits", leafAt(n, top.i)))
             /\ UNCHANGED os_
          \/ /\ top.i >= c
             /\ Emit(<<Item("recordcodec", n, fn,
                            [i \in 1..c |-> decorate(schema[n].names[i])], <<>>, c)>>)
             /\ ReturnVoid
    /\ UNCHANGED <<done, doing, tracker, pending, fixed>>

\* void CodeGen::generateUnionTraits(const NodePtr &n)
generateUnionTraits ==
    /\ Running("generateUnionTraits")
    /\ LET n == top.n
           c == leaves(n)
           name == DoneAt(n)
           fn == fullname(name)
           \* the union nodes whose names the decode body reads (line 696)
           lookups == UNION {IF typeOf(leafAt(n, i)) = "AVRO_NULL" THEN {}
                             ELSE cppTypeOfLookups(leafAt(n, i)) : i \in 0..(c - 1)}
           missing == lookups \ DOMAIN done
       IN \/ /\ top.pc = 0
             /\ done' = IF n \in DOMAIN done THEN done ELSE (n :> "") @@ done
             /\ IF unionTraitsAlreadyGenerated(fn)
                THEN ReturnVoid
                ELSE stack' = <<[top EXCEPT !.pc = 1]>> \o Tail(stack) /\ ret' = ret
             /\ UNCHANGED <<os_, generatedUnionTraits_>>
          \/ /\ top.pc = 1
             /\ top.i < c
             /\ Call([top EXCEPT !.i = top.i + 1],
                     Frame("generateTraits", leafAt(n, top.i)))
             /\ UNCHANGED <<os_, done, generatedUnionTraits_>>
          \/ /\ top.pc = 1
             /\ top.i >= c
             /\ Emit(<<Item("unioncodec", n, fn,
                            [i \in 1..c |->
                               IF typeOf(leafAt(n, i - 1)) = "AVRO_NULL" THEN "null"
                               ELSE cppNameOf(leafAt(n, i - 1))],
                            [i \in 1..c |->
                               IF typeOf(leafAt(n, i - 1)) = "AVRO_NULL" THEN ""
                               ELSE cppTypeOf(leafAt(n, i - 1))],
                            c)>>)
             /\ done' = [m \in missing |-> ""] @@ done
             /\ setTraitsGenerated(fn)
             /\ ReturnVoid
    /\ UNCHANGED <<doing, unionNumber_, unionBranchNameMapping_, pending, fixed>>

-----------------------------------------------------------------------------
(* CodeGen::generate.                                                       *)

\* static void generateGetterAndSetter(...), called by the loop of lines 836-841
generateGetterAndSetter ==
    /\ phase = "getters"
    /\ flushed < Len(pendingGettersAndSetters)
    /\ LET it == pendingGettersAndSetters[flushed + 1]
       IN Emit(<<Item("getset", 0, it.structName, <<it.type, it.name>>, <<>>, it.idx)>>)
    /\ flushed' = flushed + 1
    /\ UNCHANGED <<schema, ns_, noUnion_, inNamespace_, done, doing, tracker, pending,
                   stack, ret, phase, run>>

\* static void generateConstructor(...), called by the loop of lines 843-848
generateConstructor ==
    /\ phase = "constructors"
    /\ flushed < Len(pendingConstructors)
    /\ LET it == pendingConstructors[flushed + 1]
       IN Emit(<<Item("constructor", 0, it.structName, <<it.memberName>>, <<>>,
                      IF it.initMember THEN 1 ELSE 0)>>)
    /\ flushed' = flushed + 1
    /\ UNCHANGED <<schema, ns_, noUnion_, inNamespace_, done, doing, tracker, pending,
                   stack, ret, phase, run>>

Plain(t) == Item(t, 0, "", <<>>, <<>>, 0)

\* void CodeGen::generate(const ValidSchema &schema)
generate ==
    /\ \/ /\ phase = "start"
          /\ Emit(<<Plain("copyright"), Plain("generatedWarning"), Plain("ifndef"),
                    Plain("define"), Plain("include")>>
                  \o (IF ns_ # "" THEN <<Item("namespace", 0, ns_, <<>>, <<>>, 0)>>
                      ELSE <<>>))
          /\ inNamespace_' = (ns_ # "")
          /\ stack' = <<Frame("generateType", 1)>>
          /\ phase' = "types"
          /\ UNCHANGED flushed
       \/ /\ phase = "types"
          /\ stack = <<>>
          /\ phase' = "getters"
          /\ flushed' = 0
          /\ UNCHANGED <<os_, inNamespace_, stack>>
       \/ /\ phase = "getters"
          /\ flushed >= Len(pendingGettersAndSetters)
          /\ phase' = "constructors"
          /\ flushed' = 0
          /\ UNCHANGED <<os_, inNamespace_, stack>>
       \/ /\ phase = "constructors"
          /\ flushed >= Len(pendingConstructors)
          /\ Emit((IF ns_ # "" THEN <<Plain("namespaceEnd")>> ELSE <<>>)
                  \o <<Plain("namespaceAvro")>>)
          /\ inNamespace_' = FALSE
          /\ stack' = <<Frame("generateTraits", 1)>>
          /\ phase' = "traits"
          /\ UNCHANGED flushed
       \/ /\ phase = "traits"
          /\ stack = <<>>
          /\ Emit(<<Plain("namespaceAvroEnd"), Plain("endif")>>)
          /\ phase' = "finished"
          /\ UNCHANGED <<inNamespace_, stack, flushed>>
    /\ UNCHANGED <<schema, ns_, noUnion_, done, doing, tracker, pending, ret, run>>

\* The recursion is deeper than the stack of the process: the run crashes.
StackOverflow ==
    /\ phase \in {"types", "traits"}
    /\ Len(stack) >= MaxStack
    /\ phase' = "crashed"
    /\ UNCHANGED <<schema, ns_, noUnion_, inNamespace_, os_, done, doing, tracker,
                   pending, stack, ret, flushed, run>>

-----------------------------------------------------------------------------
(* The schemas the generator is run on.                                     *)

Wrap(tag, t) ==
    CASE tag = "array" -> TArray(t)
      [] tag = "map" -> TMap(t)
      [] tag = "optional" -> TUnion(<<TNull, t>>)
      [] tag = "optionalLast" -> TUnion(<<t, TNull>>)
      [] tag = "enumOr" -> TUnion(<<TEnum("E", <<"A", "B">>), t>>)

RECURSIVE WrapAll(_, _)
WrapAll(tags, t) ==
    IF tags = <<>> THEN t ELSE Wrap(tags[1], WrapAll(Tail(tags), t))

Tags == {"array", "map", "optional", "optionalLast", "enumOr"}
TagSeqs1 == {<<>>} \cup {<<a>> : a \in Tags}
TagSeqs2 == TagSeqs1 \cup {<<a, b>> : a, b \in Tags}

\* a record nested in the root record that refers back to itself or to the root
NestedRecords ==
    {TRecord("N", <<"next">>, <<WrapAll(ws, TRef(x))>>) :
        ws \in TagSeqs1, x \in {"N", "R"}}
    \cup {TRecord("N", <<>>, <<>>)}

Leaves == {TInt, TRef("R"), TEnum("E", <<"A", "B">>), TFixed("F", 4)}

\* records of one field: a leaf under at most two containers
OneField ==
    {TRecord("R", <<"f">>, <<WrapAll(ws, l)>>) :
        ws \in TagSeqs2, l \in Leaves \cup NestedRecords}

\* records of two fields: a type and a second use of it, or two unions
FirstFields ==
    {TUnion(<<TInt, TNull>>), TUnion(<<TNull, TInt>>), TEnum("E", <<"A", "B">>),
     TUnion(<<TNull, TRef("R")>>), TArray(TRef("R")), TFixed("F", 4),
     TRecord("N", <<"e">>, <<TEnum("E", <<"A", "B">>)>>),
     TRecord("N", <<"next">>, <<TUnion(<<TNull, TRef("N")>>)>>)}
SecondFields ==
    {TUnion(<<TInt, TNull>>), TUnion(<<TNull, TInt>>), TRef("E"), TRef("N"),
     TRef("F"), TUnion(<<TNull, TRef("R")>>), TUnion(<<TNull, TRef("N")>>),
     TArray(TRef("E")), TUnion(<<TRef("R"), TArray(TUnion(<<TNull, TInt>>))>>),
     TUnion(<<TRef("R"), TArray(TEnum("D", <<"int", "B", "C">>))>>)}
TwoFields ==
    {TRecord("R", <<"f", "g">>, <<a, b>>) : a \in FirstFields, b \in SecondFields}

\* records of three fields, each a union of int and null in one of the two orders
IntOrNull == {TUnion(<<TInt, TNull>>), TUnion(<<TNull, TInt>>)}
ThreeFields ==
    {TRecord("R", <<"f", "g", "h">>, <<a, b, c>>) :
        a \in IntOrNull, b \in IntOrNull, c \in IntOrNull}

\* roots that are no record
OtherRoots ==
    {TUnion(<<TNull, TRecord("N", <<"next">>, <<TUnion(<<TNull, TRef("N")>>)>>)>>),
     TArray(TRecord("N", <<"next">>, <<TMap(TRef("N"))>>)),
     TEnum("E", <<"A", "B">>), TInt}

\* unions whose branches come to the same name: two records of one simple name
\* in two namespaces, records named like an escaped reserved word, and a
\* record named like the array beside it
Empty(nm) == TRecord(nm, <<>>, <<>>)
CollidingUnions ==
    {TUnion(<<Empty("a.Foo"), Empty("b.Foo")>>),
     TUnion(<<TNull, Empty("a.Foo"), Empty("b.Foo")>>),
     TUnion(<<TInt, Empty("int_")>>),
     TUnion(<<TInt, Empty("int_"), Empty("int__2")>>),
     TUnion(<<TInt, Empty("int__2"), Empty("int_")>>),
     TUnion(<<TArray(TInt), Empty("array")>>)}
CollidingRoots == {TRecord("R", <<"f">>, <<u>>) : u \in CollidingUnions}

Schemas ==
    {s \in {MkSchema(t) : t \in OneField \cup TwoFields \cup ThreeFields \cup OtherRoots
                                  \cup CollidingRoots} :
        ValidSchemaTable(s)}

-----------------------------------------------------------------------------
Init ==
    /\ schema \in Schemas
    /\ ns_ \in {"", "ns"}
    /\ noUnion_ \in BOOLEAN
    /\ inNamespace_ = FALSE
    /\ os_ = <<>>
    /\ done = [n \in {} |-> ""]
    /\ doing = {}
    /\ unionNumber_ = 0
    /\ unionBranchNameMapping_ = [k \in {} |-> ""]
    /\ generatedUnionTraits_ = {}
    /\ pendingGettersAndSetters = <<>>
    /\ pendingConstructors = <<>>
    /\ stack = <<>>
    /\ ret = ""
    /\ phase = "start"
    /\ flushed = 0
    /\ run = [op |-> "none"]

Next ==
    \/ generate
    \/ generateType
    \/ doGenerateType
    \/ generateRecordType
    \/ generateEnumType
    \/ generateUnionType
    \/ generateDeclaration
    \/ generateGetterAndSetter
    \/ generateConstructor
    \/ generateTraits
    \/ generateEnumTraits
    \/ generateRecordTraits
    \/ generateUnionTraits
    \/ StackOverflow

Spec == Init /\ [][Next]_vars

\* generate() is one sequential computation: a step that can be taken is taken.
FairSpec == Spec /\ WF_vars(Next)

-----------------------------------------------------------------------------
(* Properties of the generator.                                             *)

Positions == 1..Len(os_)
RecordsAndEnums == {n \in Nodes(schema) : typeOf(n) \in {"AVRO_RECORD", "AVRO_ENUM"}}
UnionNodes == {n \in Nodes(schema) : typeOf(n) = "AVRO_UNION"}

\* the full declarations (struct or enum class bodies) written for node n
DeclarationsOf(n) ==
    {p \in Positions : os_[p].node = n /\ os_[p].t \in {"struct", "enum"}}

\* C1: when generate() is through, every named identity that the generator
\* declares (a record or an enumeration; a fixed is written as std::array and is
\* declared nowhere) has exactly one declaration in the output: none has zero
\* and none has two, however often and however it is referenced.
C1_OneDeclarationPerIdentity ==
    phase = "finished" =>
        \A n \in RecordsAndEnums : Cardinality(DeclarationsOf(n)) = 1

\* C2: generateType(root), and with it generate(), terminates on every schema
\* of the input set, all of them finite graphs whose cycles pass through a
\* named type.
C2_Terminates == <>(phase = "finished")

\* C2, the schemas it holds for: generate() terminates on every schema of the
\* input set in which no record holds itself through records alone, that is,
\* whose cycles each pass through an array, a map or a union.
C2_TerminatesWithoutRecordOnlyCycle ==
    HasRecordOnlyCycle(schema) \/ <>(phase = "finished")

\* C3: generateType is idempotent per node identity.  A call on a node (or on a
\* symbolic reference to it) that the memo table already holds returns the
\* stored name at once, appending nothing and changing no entry; and no step,
\* the outer return of a node first completed in a nested expansion of itself
\* included, changes a name that the memo table holds.
C3_Idempotent ==
    [][/\ (/\ phase = "types"
           /\ stack # <<>>
           /\ top.fn = "generateType"
           /\ top.pc = 0
           /\ ResolveIn(schema, top.n) \in DOMAIN done)
          => /\ stack' = Tail(stack)
             /\ ret' = done[ResolveIn(schema, top.n)]
             /\ os_' = os_
             /\ done' = done
       /\ \A n \in DOMAIN done : n \in DOMAIN done' /\ done'[n] = done[n]]_vars

\* C3 witness: the outer call of generateType on a record is about to return,
\* the record having been completed, under the same name, by a nested call.
C3_Witness ==
    /\ phase = "types"
    /\ stack # <<>>
    /\ top.fn = "generateType"
    /\ top.pc = 1
    /\ typeOf(ResolveIn(schema, top.n)) = "AVRO_RECORD"
    /\ ResolveIn(schema, top.n) \in DOMAIN done
    /\ done[ResolveIn(schema, top.n)] = ret
    /\ \E p \in Positions : os_[p].t = "struct" /\ os_[p].node = ResolveIn(schema, top.n)

\* the generated type names of the branches of union node u, in branch order
BranchTypeNames(u) ==
    [i \in 1..leaves(u) |-> DoneAt(ResolveIn(schema, leafAt(u, i - 1)))]

UnionStructs == {p \in Positions : os_[p].t = "union"}

\* C4: union deduplication is keyed on the ordered list of branch type names.
\* When generate() is through, two union nodes have the same generated name
\* exactly when their ordered lists of branch type names are equal (so the same
\* types in another order give another name), and each generated union name has
\* exactly one union struct in the output, declared with that list.
C4_UnionDedupByOrderedBranches ==
    phase = "finished" =>
        /\ \A u, w \in UnionNodes :
              (done[u] = done[w]) <=> (BranchTypeNames(u) = BranchTypeNames(w))
        /\ \A u \in UnionNodes :
              /\ Cardinality({p \in UnionStructs : os_[p].name = done[u]}) = 1
              /\ \A p \in UnionStructs :
                    os_[p].name = done[u] => os_[p].args = BranchTypeNames(u)

SameElements(a, b) == {a[i] : i \in 1..Len(a)} = {b[i] : i \in 1..Len(b)}

\* C4 witness: a finished run with three union nodes of the same branch types,
\* two in the same order sharing one name and one in the other order.
C4_Witness ==
    /\ phase = "finished"
    /\ \E u, w, x \in UnionNodes :
          /\ u # w
          /\ BranchTypeNames(u) = BranchTypeNames(w)
          /\ done[u] = done[w]
          /\ SameElements(BranchTypeNames(u), BranchTypeNames(x))
          /\ BranchTypeNames(u) # BranchTypeNames(x)
          /\ done[u] # done[x]

\* C5: when generate() is through, the codec of every generated union name is
\* in the output exactly once.
C5_OneCodecPerUnionName ==
    phase = "finished" =>
        \A u \in UnionNodes :
            Cardinality({p \in Positions : /\ os_[p].t = "unioncodec"
                                           /\ os_[p].name = fullname(DoneAt(u))}) = 1

\* The node whose codec a value of node n needs: n itself when it is a record,
\* an enumeration or a union, the element's through arrays and maps, and,
\* where named-type references are followed, the referenced type's.
RECURSIVE CodecTargets(_, _)
CodecTargets(n, followReferences) ==
    CASE typeOf(n) \in {"AVRO_RECORD", "AVRO_ENUM", "AVRO_UNION"} -> {n}
      [] typeOf(n) = "AVRO_ARRAY" -> CodecTargets(leafAt(n, 0), followReferences)
      [] typeOf(n) = "AVRO_MAP" -> CodecTargets(leafAt(n, 1), followReferences)
      [] typeOf(n) = "AVRO_SYMBOLIC" ->
           IF followReferences THEN CodecTargets(resolveSymbol(n), followReferences)
           ELSE {}
      [] OTHER -> {}

\* the types the fields or branches of node n depend on
DependsOn(n, followReferences) ==
    UNION {CodecTargets(leafAt(n, i), followReferences) : i \in 0..(leaves(n) - 1)}

\* the codec of node d (for a union: of its generated name) is before position p
CodecBefore(d, p) ==
    \E q \in 1..(p - 1) :
        IF typeOf(d) = "AVRO_UNION"
        THEN os_[q].t = "unioncodec" /\ os_[q].name = fullname(DoneAt(d))
        ELSE os_[q].t \in {"recordcodec", "enumcodec"} /\ os_[q].node = d

CodecsInDependencyOrder(followReferences) ==
    \A p \in Positions :
        os_[p].t \in {"recordcodec", "unioncodec"} =>
            \A d \in DependsOn(os_[p].node, followReferences) : CodecBefore(d, p)

\* C6 as claimed: at every point of the output, the codec of a record or union
\* comes after the codecs of all the records, enumerations and unions its fields
\* or branches depend on, directly or through arrays, maps and named-type
\* references.
C6_DependencyOrderThroughReferences == CodecsInDependencyOrder(TRUE)

\* C6 as amended: the same for the types the fields or branches hold directly
\* or through arrays and maps; a type that is only referenced by name (a
\* symbolic node, as in every recursive schema) may get its codec later.
C6_DependencyOrder == CodecsInDependencyOrder(FALSE)

\* C6 witness: the codec of a record was appended whose fields depend on a
\* union and which is itself a branch of a union.
C6_Witness ==
    \E p \in Positions :
        /\ os_[p].t = "recordcodec"
        /\ \E d \in DependsOn(os_[p].node, FALSE) : typeOf(d) = "AVRO_UNION"
        /\ \E q \in Positions :
              /\ q > p
              /\ os_[q].t = "unioncodec"
              /\ os_[p].node \in DependsOn(os_[q].node, FALSE)

\* The section of the header an item belongs to: 0 the preamble, 1 the type
\* declarations, 2 the deferred union bodies, 3 the codecs, 4 the closing guard.
Section(item) ==
    CASE item.t \in {"copyright", "generatedWarning", "ifndef", "define", "include",
                     "namespace"} -> 0
      [] item.t \in {"enum", "struct", "forward", "union"} -> 1
      [] item.t \in {"getset", "constructor"} -> 2
      [] item.t \in {"namespaceEnd", "namespaceAvro", "enumcodec", "recordcodec",
                     "unioncodec", "namespaceAvroEnd"} -> 3
      [] item.t = "endif" -> 4

SectionsInOrder(out) ==
    \A p, q \in 1..Len(out) : p < q => Section(out[p]) <= Section(out[q])

IsPrefix(a, b) == Len(a) <= Len(b) /\ \A p \in 1..Len(a) : a[p] = b[p]

\* C7: the output is append-only and its sections come in strict order:
\* preamble, type declarations (forward declarations among them), deferred
\* union bodies, codecs, closing guard.  Every step only appends, and after
\* every step no item of an earlier section follows an item of a later one.
C7_SectionsInOrder == [][IsPrefix(os_, os_') /\ SectionsInOrder(os_')]_vars

\* C7 witness: a finished run whose output has a forward declaration, a union
\* struct, deferred bodies and codecs.
C7_Witness ==
    /\ phase = "finished"
    /\ \A t \in {"forward", "union", "struct", "getset", "constructor", "unioncodec",
                 "recordcodec", "endif"} :
          \E p \in Positions : os_[p].t = t

-----------------------------------------------------------------------------
(* The emitted codecs at run time.  A value of a generated type is          *)
(* [tag, n, kids]: n is the number of a primitive, the ordinal of an        *)
(* enumeration value or idx_ of a union; kids are the fields of a record,   *)
(* the active branch of a union, the items of an array or the entries of a  *)
(* map.  The wire is a sequence of numbers, one per primitive written.      *)

MaxInt == 1        \* primitive values are 0..MaxInt
MaxItems == 1      \* arrays and maps hold at most MaxItems items
MaxDepth == 4      \* values nest at most MaxDepth deep
MaxWire == 3       \* the numbers on a wire to decode are 0..MaxWire
MaxStreamLen == 3  \* a wire to decode has at most MaxStreamLen numbers

V(tag, n, kids) == [tag |-> tag, n |-> n, kids |-> kids]
Unset == V("unset", 0, <<>>)

\* the runtime's Encoder and Decoder for a primitive: one number on the wire
primitiveTag(n) ==
    CASE typeOf(n) = "AVRO_INT" -> "int"
      [] typeOf(n) = "AVRO_STRING" -> "string"
      [] typeOf(n) = "AVRO_FIXED" -> "fixed"
      [] OTHER -> "primitive"

\* a Decoder: the wire left to read, and for a ResolvingDecoder the record it
\* reorders and the order fieldOrder() returns for it
Decoder(s, resolving, rec, fo) ==
    [s |-> s, resolving |-> resolving, rec |-> rec, fo |-> fo]

\* the result of a decode: the exception thrown ("" for none), the target as
\* it is left, the decoder as it is left, and the case labels a record's decode
\* went through
Decoded(err, v, d, order) == [err |-> err, v |-> v, d |-> d, order |-> order]

\* the result of an encode: the exception thrown and the wire as it is left
Encoded(err, s) == [err |-> err, s |-> s]

\* The value of enumerator name of the enum class generateEnumType declares
\* for node n: its position in the declaration.
enumeratorValue(n, name) ==
    CHOOSE i \in 0..(Len(schema[n].names) - 1) : decorate(nameAt(n, i)) = name

\* the enumerator the emitted codec compares with (line 558)
lastOf(n) == decorate(nameAt(n, Len(schema[n].names) - 1))

\* codec_traits<enum>::encode as generateEnumTraits emits it (lines 561-570)
EnumEncode(n, v, e) ==
    IF v.n > enumeratorValue(n, lastOf(n))
    THEN Encoded("enum value is out of bound and cannot be encoded", e)
    ELSE Encoded("", Append(e, v.n))

\* EnumDecode with the bound compared by >= instead of >
EnumDecodeOffByOne(n, d, old) ==
    IF d.s = <<>> THEN Decoded("EOF", old, d, <<>>)
    ELSE LET index == Head(d.s)
             rest == [d EXCEPT !.s = Tail(d.s)]
         IN IF index >= enumeratorValue(n, lastOf(n))
            THEN Decoded("enum value is out of bound and cannot be decoded", old,
                         rest, <<>>)
            ELSE Decoded("", V("enum", index, <<>>), rest, <<>>)

\* codec_traits<enum>::decode as generateEnumTraits emits it (lines 571-581)
EnumDecode(n, d, old) ==
    IF d.s = <<>> THEN Decoded("EOF", old, d, <<>>)
    ELSE LET index == Head(d.s)
             rest == [d EXCEPT !.s = Tail(d.s)]
         IN IF index > enumeratorValue(n, lastOf(n))
            THEN Decoded("enum value is out of bound and cannot be decoded", old,
                         rest, <<>>)
            ELSE Decoded("", V("enum", index, <<>>), rest, <<>>)

RECURSIVE Encode(_, _, _)
RECURSIVE Decode(_, _, _)

\* codec_traits<record>::encode as generateRecordTraits emits it (lines
\* 595, 607-616): the fields from field i on, in declared order.
RECURSIVE RecordEncodeFrom(_, _, _, _)
RecordEncodeFrom(n, v, e, i) ==
    IF i >= leaves(n) THEN Encoded("", e)
    ELSE LET r == Encode(leafAt(n, i), v.kids[i + 1], e)
         IN IF r.err # "" THEN r ELSE RecordEncodeFrom(n, v, r.s, i + 1)

RecordEncode(n, v, e) == RecordEncodeFrom(n, v, e, 0)

\* The idx the accessors get_name and set_name of the union struct of node n
\* compare idx_ with and set it to (generateGetterAndSetter, lines 310-347,
\* with the idx generateUnionType queues for name, line 448).
accessorIndex(n, name) ==
    CHOOSE i \in 0..(leaves(n) - 1) :
        typeOf(leafAt(n, i)) # "AVRO_NULL" /\ cppNameOf(leafAt(n, i)) = name

\* the idx set_null of the union struct of node n sets (lines 434-437)
nullIndex(n) ==
    CHOOSE i \in 0..(leaves(n) - 1) : typeOf(leafAt(n, i)) = "AVRO_NULL"

\* UnionEncode without the call of encodeUnionIndex
UnionEncodePayloadOnly(n, v, e) ==
    IF v.n >= leaves(n) THEN Encoded("", e)
    ELSE IF typeOf(leafAt(n, v.n)) = "AVRO_NULL" THEN Encoded("", e)
    ELSE Encode(leafAt(n, v.n), v.kids[1], e)

\* codec_traits<union>::encode as generateUnionTraits emits it (lines 664-681)
UnionEncode(n, v, e) ==
    LET e1 == Append(e, v.n)
    IN IF v.n >= leaves(n) THEN Encoded("", e1)
       ELSE IF typeOf(leafAt(n, v.n)) = "AVRO_NULL" THEN Encoded("", e1)
       ELSE IF v.n # accessorIndex(n, cppNameOf(leafAt(n, v.n)))
       THEN Encoded("Invalid type for union", e1)
       ELSE Encode(leafAt(n, v.n), v.kids[1], e1)

\* the runtime's encode of std::vector: the item count, the items, 0
RECURSIVE ItemsEncode(_, _, _, _)
ItemsEncode(ln, items, e, isMap) ==
    IF items = <<>> THEN Encoded("", e)
    ELSE LET e1 == IF isMap THEN Append(e, items[1].n) ELSE e
             r == Encode(ln, IF isMap THEN items[1].kids[1] ELSE items[1], e1)
         IN IF r.err # "" THEN r ELSE ItemsEncode(ln, Tail(items), r.s, isMap)

ContainerEncode(n, v, e) ==
    LET isMap == typeOf(n) = "AVRO_MAP"
        ln == leafAt(n, IF isMap THEN 1 ELSE 0)
        e1 == IF v.kids = <<>> THEN e ELSE Append(e, Len(v.kids))
        r == ItemsEncode(ln, v.kids, e1, isMap)
    IN IF r.err # "" THEN r ELSE Encoded("", Append(r.s, 0))

\* avro::encode(e, v) for a value of the type of node n
Encode(n, v, e) ==
    CASE typeOf(n) = "AVRO_NULL" -> Encoded("", e)
      [] typeOf(n) = "AVRO_ENUM" -> EnumEncode(n, v, e)
      [] typeOf(n) = "AVRO_RECORD" -> RecordEncode(n, v, e)
      [] typeOf(n) = "AVRO_UNION" -> UnionEncode(n, v, e)
      [] typeOf(n) \in {"AVRO_ARRAY", "AVRO_MAP"} -> ContainerEncode(n, v, e)
      [] typeOf(n) = "AVRO_SYMBOLIC" -> Encode(resolveSymbol(n), v, e)
      [] OTHER -> Encoded("", Append(e, v.n))


\* the fields of a record value, or none yet for a target that is no record
fieldsOf(n, old) ==
    IF old.tag = "record" /\ Len(old.kids) = leaves(n) THEN old.kids
    ELSE [i \in 1..leaves(n) |-> Unset]

\* The body of the emitted record decode: the case labels of order from
\* position j on (lines 621-635 with order = fo, lines 638-643 with the
\* declared order); a label that is no field index takes the default case.
RECURSIVE RecordDecodeFrom(_, _, _, _, _)
RecordDecodeFrom(n, d, fields, order, j) ==
    IF j > Len(order) THEN Decoded("", V("record", 0, fields), d, order)
    ELSE IF order[j] >= leaves(n)
    THEN RecordDecodeFrom(n, d, fields, order, j + 1)
    ELSE LET i == order[j]
             r == Decode(leafAt(n, i), d, fields[i + 1])
             stored == [fields EXCEPT ![i + 1] = r.v]
         IN IF r.err # ""
            THEN Decoded(r.err, V("record", 0, stored), r.d, SubSeq(order, 1, j))
            ELSE RecordDecodeFrom(n, r.d, stored, order, j + 1)

declaredOrder(n) == [j \in 1..leaves(n) |-> j - 1]

\* what rd->fieldOrder() returns for the record the decoder resolves; the
\* records nested in it are read in the order they declare
fieldOrder(n, d) == IF d.rec = n THEN d.fo ELSE declaredOrder(n)

\* RecordDecode reading the fields in declared order whatever the decoder
RecordDecodeDeclaredOrder(n, d, old) ==
    RecordDecodeFrom(n, d, fieldsOf(n, old), declaredOrder(n), 1)

\* codec_traits<record>::decode as generateRecordTraits emits it (lines
\* 598-602, 617-646)
RecordDecode(n, d, old) ==
    RecordDecodeFrom(n, d, fieldsOf(n, old),
                     IF d.resolving THEN fieldOrder(n, d) ELSE declaredOrder(n), 1)

\* UnionDecode with the index compared by > instead of >=
UnionDecodeOffByOne(n, d, old) ==
    IF d.s = <<>> THEN Decoded("EOF", old, d, <<>>)
    ELSE LET t == Head(d.s)
             rest == [d EXCEPT !.s = Tail(d.s)]
         IN IF t > leaves(n) THEN Decoded("Union index too big", old, rest, <<>>)
            ELSE IF t = leaves(n) THEN Decoded("", old, rest, <<>>)
            ELSE IF typeOf(leafAt(n, t)) = "AVRO_NULL"
            THEN Decoded("", V("union", nullIndex(n), <<V("null", 0, <<>>)>>), rest,
                         <<>>)
            ELSE LET r == Decode(leafAt(n, t), rest, Unset)
                 IN IF r.err # "" THEN Decoded(r.err, old, r.d, <<>>)
                    ELSE Decoded("", V("union", accessorIndex(n, cppNameOf(leafAt(n, t))),
                                       <<r.v>>), r.d, <<>>)

\* codec_traits<union>::decode as generateUnionTraits emits it (lines 682-704)
UnionDecode(n, d, old) ==
    IF d.s = <<>> THEN Decoded("EOF", old, d, <<>>)
    ELSE LET t == Head(d.s)
             rest == [d EXCEPT !.s = Tail(d.s)]
         IN IF t >= leaves(n) THEN Decoded("Union index too big", old, rest, <<>>)
            ELSE IF typeOf(leafAt(n, t)) = "AVRO_NULL"
            THEN Decoded("", V("union", nullIndex(n), <<V("null", 0, <<>>)>>), rest,
                         <<>>)
            ELSE LET r == Decode(leafAt(n, t), rest, Unset)
                 IN IF r.err # "" THEN Decoded(r.err, old, r.d, <<>>)
                    ELSE Decoded("", V("union", accessorIndex(n, cppNameOf(leafAt(n, t))),
                                       <<r.v>>), r.d, <<>>)

\* s[k] = t on the entries of a std::map, which are sorted by key
RECURSIVE Put(_, _, _)
Put(entries, k, t) ==
    IF entries = <<>> THEN <<V("entry", k, <<t>>)>>
    ELSE IF entries[1].n = k THEN <<V("entry", k, <<t>>)>> \o Tail(entries)
    ELSE IF entries[1].n > k THEN <<V("entry", k, <<t>>)>> \o entries
    ELSE <<entries[1]>> \o Put(Tail(entries), k, t)

\* the runtime's decode of std::vector and std::map: the target is cleared,
\* then blocks of count items are read until a count of 0
RECURSIVE ItemsDecode(_, _, _, _)
ItemsDecode(n, d, acc, left) ==
    LET isMap == typeOf(n) = "AVRO_MAP"
        tag == IF isMap THEN "map" ELSE "array"
        ln == leafAt(n, IF isMap THEN 1 ELSE 0)
    IN IF d.s = <<>> THEN Decoded("EOF", V(tag, 0, acc), d, <<>>)
       ELSE IF left = 0
       THEN IF Head(d.s) = 0
            THEN Decoded("", V(tag, 0, acc), [d EXCEPT !.s = Tail(d.s)], <<>>)
            ELSE ItemsDecode(n, [d EXCEPT !.s = Tail(d.s)], acc, Head(d.s))
       ELSE LET d1 == IF isMap THEN [d EXCEPT !.s = Tail(d.s)] ELSE d
                r == Decode(ln, d1, Unset)
            IN IF r.err # "" THEN Decoded(r.err, V(tag, 0, acc), r.d, <<>>)
               ELSE ItemsDecode(n, r.d,
                                IF isMap THEN Put(acc, Head(d.s), r.v)
                                ELSE Append(acc, r.v),
                                left - 1)

ContainerDecode(n, d, old) == ItemsDecode(n, d, <<>>, 0)

\* avro::decode(d, v) for a target of the type of node n
Decode(n, d, old) ==
    CASE typeOf(n) = "AVRO_NULL" -> Decoded("", V("null", 0, <<>>), d, <<>>)
      [] typeOf(n) = "AVRO_ENUM" -> EnumDecode(n, d, old)
      [] typeOf(n) = "AVRO_RECORD" -> RecordDecode(n, d, old)
      [] typeOf(n) = "AVRO_UNION" -> UnionDecode(n, d, old)
      [] typeOf(n) \in {"AVRO_ARRAY", "AVRO_MAP"} -> ContainerDecode(n, d, old)
      [] typeOf(n) = "AVRO_SYMBOLIC" -> Decode(resolveSymbol(n), d, old)
      [] OTHER ->
           IF d.s = <<>> THEN Decoded("EOF", old, d, <<>>)
           ELSE Decoded("", V(primitiveTag(n), Head(d.s), <<>>),
                        [d EXCEPT !.s = Tail(d.s)], <<>>)

-----------------------------------------------------------------------------
(* The values a program can build of the generated types, the wires a       *)
(* decoder can be given, and the runs of the emitted codecs.                *)

RECURSIVE Product(_)
Product(sets) ==
    IF sets = <<>> THEN {<<>>}
    ELSE {<<h>> \o t : h \in sets[1], t \in Product(Tail(sets))}

\* the ascending sequences of at most k keys out of lo..MaxInt
RECURSIVE KeySeqs(_, _)
KeySeqs(lo, k) ==
    IF k = 0 THEN {<<>>}
    ELSE {<<>>} \cup UNION {{<<h>> \o t : t \in KeySeqs(h + 1, k - 1)} : h \in lo..MaxInt}

\* the values of the type of node n that nest at most depth deep; a union is
\* built by one of its setters and an enumeration holds one of its enumerators
RECURSIVE Values(_, _)
Values(n, depth) ==
    CASE typeOf(n) = "AVRO_NULL" -> {V("null", 0, <<>>)}
      [] typeOf(n) = "AVRO_ENUM" ->
           {V("enum", o, <<>>) : o \in 0..(Len(schema[n].names) - 1)}
      [] typeOf(n) = "AVRO_SYMBOLIC" -> Values(resolveSymbol(n), depth)
      [] typeOf(n) = "AVRO_RECORD" ->
           IF depth = 0 THEN {}
           ELSE {V("record", 0, kids) :
                    kids \in Product([i \in 1..leaves(n) |->
                                         Values(leafAt(n, i - 1), depth - 1)])}
      [] typeOf(n) = "AVRO_UNION" ->
           IF depth = 0 THEN {}
           ELSE UNION {{V("union", i, <<p>>) : p \in Values(leafAt(n, i), depth - 1)} :
                          i \in 0..(leaves(n) - 1)}
      [] typeOf(n) = "AVRO_ARRAY" ->
           IF depth = 0 THEN {}
           ELSE UNION {{V("array", 0, items) :
                           items \in Product([i \in 1..k |->
                                                 Values(leafAt(n, 0), depth - 1)])} :
                          k \in 0..MaxItems}
      [] typeOf(n) = "AVRO_MAP" ->
           IF depth = 0 THEN {}
           ELSE UNION {{V("map", 0, [i \in 1..Len(ks) |-> V("entry", ks[i], <<ts[i]>>)]) :
                           ts \in Product([i \in 1..Len(ks) |->
                                              Values(leafAt(n, 1), depth - 1)])} :
                          ks \in KeySeqs(0, MaxItems)}
      [] OTHER -> {V(primitiveTag(n), x, <<>>) : x \in 0..MaxInt}

\* The value a default-constructed object of the type of node n holds: the
\* first enumerator, the first branch of a union (PendingConstructor, lines
\* 349-357), no items.
RECURSIVE DefaultValue(_, _)
DefaultValue(n, depth) ==
    CASE typeOf(n) = "AVRO_NULL" -> V("null", 0, <<>>)
      [] typeOf(n) = "AVRO_ENUM" -> V("enum", 0, <<>>)
      [] typeOf(n) = "AVRO_SYMBOLIC" -> DefaultValue(resolveSymbol(n), depth)
      [] typeOf(n) = "AVRO_RECORD" ->
           IF depth = 0 THEN Unset
           ELSE V("record", 0, [i \in 1..leaves(n) |->
                                   DefaultValue(leafAt(n, i - 1), depth - 1)])
      [] typeOf(n) = "AVRO_UNION" ->
           IF depth = 0 THEN Unset
           ELSE V("union", 0, <<DefaultValue(leafAt(n, 0), depth - 1)>>)
      [] typeOf(n) = "AVRO_ARRAY" -> V("array", 0, <<>>)
      [] typeOf(n) = "AVRO_MAP" -> V("map", 0, <<>>)
      [] OTHER -> V(primitiveTag(n), 0, <<>>)

\* the targets a program decodes into: any value of an enumeration or a
\* union, a default-constructed record
Targets(n) ==
    IF typeOf(n) = "AVRO_RECORD" THEN {DefaultValue(n, MaxDepth)}
    ELSE Values(n, MaxDepth)

\* an enumeration value cast from any number up to one past the last enumerator
CastValues(n) == {V("enum", o, <<>>) : o \in 0..Len(schema[n].names)}

Streams == UNION {[1..k -> 0..MaxWire] : k \in 0..MaxStreamLen}

FieldOrders(c) ==
    {p \in [1..c -> 0..(c - 1)] : \A i, j \in 1..c : p[i] = p[j] => i = j}

\* the nodes a codec is emitted for (generateTraits, lines 722-733)
CodecNodes == {n \in Nodes(schema) : typeOf(n) \in {"AVRO_RECORD", "AVRO_ENUM", "AVRO_UNION"}}

PlainDecoder(s) == Decoder(s, FALSE, 0, <<>>)

\* What a writer whose schema lists the fields of record rec in the order p
\* puts on the wire for the value v of node n: the binary encoding, every
\* record of rec with its fields in the order p.
RECURSIVE WriterEncode(_, _, _, _, _)
RECURSIVE WriterFields(_, _, _, _, _, _, _)
WriterFields(n, v, e, rec, p, order, j) ==
    IF j > Len(order) THEN e
    ELSE WriterFields(n, v,
                      WriterEncode(leafAt(n, order[j]), v.kids[order[j] + 1], e, rec, p),
                      rec, p, order, j + 1)

RECURSIVE WriterItems(_, _, _, _, _, _)
WriterItems(ln, items, e, rec, p, isMap) ==
    IF items = <<>> THEN e
    ELSE LET e1 == IF isMap THEN Append(e, items[1].n) ELSE e
             item == IF isMap THEN items[1].kids[1] ELSE items[1]
         IN WriterItems(ln, Tail(items), WriterEncode(ln, item, e1, rec, p), rec, p, isMap)

WriterEncode(n, v, e, rec, p) ==
    CASE typeOf(n) = "AVRO_NULL" -> e
      [] typeOf(n) = "AVRO_SYMBOLIC" -> WriterEncode(resolveSymbol(n), v, e, rec, p)
      [] typeOf(n) = "AVRO_RECORD" ->
           WriterFields(n, v, e, rec, p, IF n = rec THEN p ELSE declaredOrder(n), 1)
      [] typeOf(n) = "AVRO_UNION" ->
           WriterEncode(leafAt(n, v.n), v.kids[1], Append(e, v.n), rec, p)
      [] typeOf(n) \in {"AVRO_ARRAY", "AVRO_MAP"} ->
           LET isMap == typeOf(n) = "AVRO_MAP"
               e1 == IF v.kids = <<>> THEN e ELSE Append(e, Len(v.kids))
           IN Append(WriterItems(leafAt(n, IF isMap THEN 1 ELSE 0), v.kids, e1, rec, p,
                                 isMap), 0)
      [] OTHER -> Append(e, v.n)

\* a program encodes a value with the emitted codec of node n
EncodeRun ==
    /\ run.op = "none"
    /\ \E n \in CodecNodes :
         \E v \in IF typeOf(n) = "AVRO_ENUM" THEN CastValues(n) ELSE Values(n, MaxDepth) :
            run' = [op |-> "encode", n |-> n, v |-> v, out |-> Encode(n, v, <<>>)]
    /\ UNCHANGED genVars

\* a program decodes any wire into a target with the emitted codec of node n
DecodeRun ==
    /\ run.op = "none"
    /\ \E n \in CodecNodes :
         \E s \in Streams, old \in Targets(n) :
            run' = [op |-> "decode", n |-> n, s |-> s, old |-> old,
                    out |-> Decode(n, PlainDecoder(s), old)]
    /\ UNCHANGED genVars

\* a program decodes into a record what a writer wrote, with a plain decoder
\* when the writer wrote with the emitted encode, with a resolving decoder
\* when the writer wrote the fields in the order p
WrittenDecodeRun ==
    /\ run.op = "none"
    /\ \E n \in {m \in CodecNodes : typeOf(m) = "AVRO_RECORD"} :
         \E w \in Values(n, MaxDepth), old \in Targets(n), resolving \in BOOLEAN :
            \E p \in IF resolving THEN FieldOrders(leaves(n)) ELSE {declaredOrder(n)} :
               LET s == IF resolving THEN WriterEncode(n, w, <<>>, n, p)
                        ELSE Encode(n, w, <<>>).s
               IN run' = [op |-> "writtenDecode", n |-> n, w |-> w, old |-> old,
                          resolving |-> resolving, p |-> p, s |-> s,
                          out |-> Decode(n, Decoder(s, resolving, n, p), old)]
    /\ UNCHANGED genVars

\* a program encodes a value with the emitted codec of node n and decodes what
\* was written, followed by what else is on the wire, with the emitted codec
\* and a plain decoder
RoundTripRun ==
    /\ run.op = "none"
    /\ \E n \in CodecNodes :
         \E v \in Values(n, MaxDepth), old \in Targets(n), more \in {<<>>, <<1>>} :
            LET written == Encode(n, v, <<>>)
            IN run' = [op |-> "roundTrip", n |-> n, v |-> v, old |-> old,
                       more |-> more, written |-> written,
                       out |-> Decode(n, PlainDecoder(written.s \o more), old)]
    /\ UNCHANGED genVars

\* the schemas the codecs are run on: records of two and three fields, the
\* roots that are no record, and an enumeration whose last symbol is a
\* reserved word
CodecSecondFields ==
    {TUnion(<<TNull, TInt>>), TRef("E"), TRef("N"), TMap(TRef("E")),
     TUnion(<<TRef("R"), TArray(TEnum("D", <<"int", "B", "C">>))>>)}
CodecRoots ==
    {TRecord("R", <<"f", "g">>, <<a, b>>) : a \in FirstFields, b \in CodecSecondFields}
    \cup ThreeFields \cup OtherRoots
    \cup {TRecord("R", <<"k", "u">>,
                  <<TEnum("K", <<"A", "B", "for">>), TUnion(<<TNull, TRef("K"), TInt>>)>>)}

CodecSchemas ==
    {s \in {MkSchema(t) : t \in CodecRoots} :
        ValidSchemaTable(s) /\ ~HasRecordOnlyCycle(s)}

CodecInit ==
    /\ schema \in CodecSchemas
    /\ ns_ = ""
    /\ noUnion_ = FALSE
    /\ inNamespace_ = FALSE
    /\ os_ = <<>>
    /\ done = [n \in {} |-> ""]
    /\ doing = {}
    /\ unionNumber_ = 0
    /\ unionBranchNameMapping_ = [k \in {} |-> ""]
    /\ generatedUnionTraits_ = {}
    /\ pendingGettersAndSetters = <<>>
    /\ pendingConstructors = <<>>
    /\ stack = <<>>
    /\ ret = ""
    /\ phase = "start"
    /\ flushed = 0
    /\ run = [op |-> "none"]

CodecNext ==
    \/ EncodeRun
    \/ DecodeRun
    \/ WrittenDecodeRun
    \/ RoundTripRun

CodecSpec == CodecInit /\ [][CodecNext]_vars

-----------------------------------------------------------------------------
(* The emitted codecs (section 6): enumerations, unions, records            *)

EnumRun(op) == run.op = op /\ typeOf(run.n) = "AVRO_ENUM"
UnionRun(op) == run.op = op /\ typeOf(run.n) = "AVRO_UNION"
OutOfBound(err, what) ==
    err = "enum value is out of bound and cannot be " \o what

\* C8: for an enumeration of k symbols the emitted codec encodes the value at
\* position i < k as the ordinal i and decodes the ordinal i < k to the
\* enumerator at position i; encoding a value of ordinal >= k fails with an
\* out-of-bound error and writes nothing, decoding an ordinal >= k fails with
\* an out-of-bound error and leaves the target as it was.
C8_EnumCodec ==
    /\ EnumRun("encode") =>
         LET k == Len(schema[run.n].names)
         IN IF run.v.n < k
            THEN run.out.err = "" /\ run.out.s = <<run.v.n>>
            ELSE OutOfBound(run.out.err, "encoded") /\ run.out.s = <<>>
    /\ EnumRun("decode") /\ run.s # <<>> =>
         LET k == Len(schema[run.n].names)
             i == Head(run.s)
         IN IF i < k
            THEN /\ run.out.err = ""
                 /\ run.out.v.tag = "enum"
                 /\ run.out.v.n = enumeratorValue(run.n, decorate(nameAt(run.n, i)))
                 /\ run.out.v.n = i
            ELSE OutOfBound(run.out.err, "decoded") /\ run.out.v = run.old

\* C8 witness: the ordinal 3 is decoded into a target holding the enumerator at
\* position 1 of an enumeration of three symbols whose last is the reserved
\* word "for": the decode fails.
C8_Witness ==
    /\ EnumRun("decode")
    /\ schema[run.n].names = <<"A", "B", "for">>
    /\ run.s = <<3>>
    /\ run.old.n = 1
    /\ run.out.err # ""

\* C9: for a union of c branches the emitted codec encodes a value as its
\* 0-based branch tag followed by the encoding of the branch's value, nothing
\* for the null branch; decoding a tag t >= c fails with a union-index error
\* and leaves the target as it was, decoding a tag t < c decodes the rest with
\* the codec of branch t and makes branch t the active branch.
C9_UnionCodec ==
    /\ UnionRun("encode") =>
         LET branch == leafAt(run.n, run.v.n)
         IN /\ run.out.err = ""
            /\ run.out.s =
                 <<run.v.n>> \o (IF typeOf(branch) = "AVRO_NULL" THEN <<>>
                                ELSE Encode(branch, run.v.kids[1], <<>>).s)
    /\ UnionRun("decode") /\ run.s # <<>> =>
         LET c == leaves(run.n)
             t == Head(run.s)
         IN IF t >= c
            THEN run.out.err = "Union index too big" /\ run.out.v = run.old
            ELSE LET payload == Decode(leafAt(run.n, t), PlainDecoder(Tail(run.s)), Unset)
                 IN IF payload.err # ""
                    THEN run.out.err = payload.err /\ run.out.v = run.old
                    ELSE /\ run.out.err = ""
                         /\ run.out.v = V("union", t, <<payload.v>>)
                         /\ run.out.d.s = payload.d.s

\* C9 witness: the tag 2 is decoded into a union of two branches whose target
\* holds its second branch: the decode fails with the union-index error.
C9_Witness ==
    /\ UnionRun("decode")
    /\ leaves(run.n) = 2
    /\ run.s = <<2, 1>>
    /\ run.old.n = 1
    /\ run.out.err = "Union index too big"

\* C9 witness of the other case: the tag of a record branch and the record's
\* encoding are decoded, and the record's branch becomes the active one.
C9_WitnessPayload ==
    /\ UnionRun("decode")
    /\ run.s # <<>>
    /\ Head(run.s) < leaves(run.n)
    /\ typeOf(leafAt(run.n, Head(run.s))) = "AVRO_RECORD"
    /\ run.out.err = ""
    /\ run.out.v.n = Head(run.s)

RecordRun == run.op = "writtenDecode"

\* C10: the emitted decode of a record of n fields, under a resolving decoder
\* whose field order is a permutation p, decodes the fields p[0], p[1], ... in
\* that order and stores each in the field of that declared index, so that
\* whatever p is the record holds the values the writer wrote; under another
\* decoder it decodes the fields in declared order, the order encode writes
\* them in.
C10_RecordDecodeOrder ==
    RecordRun =>
        /\ run.out.err = ""
        /\ run.out.order = run.p
        /\ run.out.v = run.w
        /\ run.out.d.s = <<>>
        /\ ~run.resolving => run.p = declaredOrder(run.n)

\* C10 witness: a record of three fields is decoded under a resolving decoder
\* whose field order is <<2, 0, 1>>, the three fields having been written with
\* three different encodings.
C10_Witness ==
    /\ RecordRun
    /\ run.resolving
    /\ run.p = <<2, 0, 1>>
    /\ \A i, j \in 1..3 : i # j => run.w.kids[i] # run.w.kids[j]
    /\ Len(run.s) >= 4
    /\ run.out.v = run.w


\* C11: for every value of a generated type within the bounds (records,
\* enumerations, unions, with arrays, maps and recursive records nested in
\* them) the emitted encode succeeds, and the emitted decode under a plain
\* decoder, run on what was written, yields an equal value and reads exactly
\* what was written: what follows on the wire is left unread.
C11_RoundTrip ==
    run.op = "roundTrip" =>
        /\ run.written.err = ""
        /\ run.out.err = ""
        /\ run.out.v = run.v
        /\ run.out.d.s = run.more

\* C11 witness: a record is round-tripped one of whose fields is an array or a
\* map holding an item, numbers following it on the wire.
C11_Witness ==
    /\ run.op = "roundTrip"
    /\ typeOf(run.n) = "AVRO_RECORD"
    /\ \E i \in 1..Len(run.v.kids) :
          run.v.kids[i].tag \in {"array", "map"} /\ run.v.kids[i].kids # <<>>
    /\ run.more # <<>>
    /\ run.out.v = run.v

-----------------------------------------------------------------------------
(* The include guard.  A file is the sequence of its lines, a line the      *)
(* sequence of its characters, the words "#ifndef" and "#define" and the    *)
(* parts of a guard token each standing as one character.                   *)

MaxLines == 3     \* an existing output file has at most MaxLines lines
MaxRandom == 1    \* random_() returns 0..MaxRandom
MaxRuns == 2      \* the generator is run at most MaxRuns times over the file

\* a file that exists, and a path at which there is no file
File(lines) == [exists |-> TRUE, lines |-> lines]
Absent == [exists |-> FALSE, lines |-> <<>>]

\* std::isspace in the classic locale
isspace(c) == c \in {" ", "\t"}

\* readGuard lines 870-876: the line without leading and trailing whitespace
RECURSIVE trim(_)
trim(buf) ==
    IF buf = <<>> THEN buf
    ELSE IF isspace(Head(buf)) THEN trim(Tail(buf))
    ELSE IF isspace(buf[Len(buf)]) THEN trim(SubSeq(buf, 1, Len(buf) - 1))
    ELSE buf

\* buf.compare(0, 8, "#ifndef ") == 0, and the same for "#define "
startsWith(buf, word) == Len(buf) >= 2 /\ buf[1] = word /\ buf[2] = " "

\* buf.substr(8)
substr8(buf) == SubSeq(buf, 3, Len(buf))

\* readGuard lines 869-890: the loop over the lines from line i on
RECURSIVE readGuardFrom(_, _, _)
readGuardFrom(lines, i, candidate) ==
    IF i > Len(lines) THEN candidate
    ELSE LET buf == trim(lines[i])
         IN IF candidate = <<>>
            THEN readGuardFrom(lines, i + 1,
                               IF startsWith(buf, "#ifndef") THEN substr8(buf) ELSE <<>>)
            ELSE IF startsWith(buf, "#define")
            THEN IF candidate = substr8(buf) THEN candidate
                 ELSE readGuardFrom(lines, i + 1, candidate)
            ELSE readGuardFrom(lines, i + 1, <<>>)

\* static string readGuard(const string &filename): a file that cannot be
\* opened has no lines
readGuard(file) == IF ~file.exists THEN <<>> ELSE readGuardFrom(file.lines, 1, <<>>)

\* string CodeGen::guard(), the header's name being x.hh
guard(r) == <<"X_HH", "_", ToString(r), "_H">>

\* the lines generate() writes with the guard h: the copyright and the
\* warning, each followed by a blank line, the guard, the rest
headerLines(h) ==
    <<<<"/**">>, <<" ", "*/">>, <<>>, <<"/*", " ", "*/">>, <<>>,
      <<"#ifndef", " ">> \o h, <<"#define", " ">> \o h, <<>>, <<>>,
      <<"#include">>, <<"#endif">>>>

\* the lines an existing output file is made of
Lines ==
    {<<>>, <<" ">>, <<"x">>,
     <<"#ifndef", " ", "A">>, <<" ", "#ifndef", " ", "A", "\t">>,
     <<"#ifndef", "\t", "A">>, <<"#ifndef", " ", "B">>, <<"#ifndef">>,
     <<"#define", " ", "A">>, <<"#define", " ", "A", " ">>,
     <<"#define", " ", "B">>, <<"#define", " ", " ", "A">>}

Files == {File(ls) : ls \in UNION {[1..k -> Lines] : k \in 0..MaxLines}}

\* main line 1011: the guard of the existing output file is read
readGuardRun ==
    /\ run.op = "main"
    /\ run.runs < MaxRuns
    /\ run' = [run EXCEPT !.op = "generate", !.g = readGuard(run.file),
                          !.read = run.file]
    /\ UNCHANGED genVars

\* main lines 1012-1013 with generate() lines 815-818: the file is written
\* anew, with the guard read or with a fresh one
generateGuard ==
    /\ run.op = "generate"
    /\ \E r \in 0..MaxRandom :
         LET h == IF run.g = <<>> THEN guard(r) ELSE run.g
         IN run' = [run EXCEPT !.op = "main", !.runs = run.runs + 1, !.h = h,
                               !.before = run.h, !.file = File(headerLines(h))]
    /\ UNCHANGED genVars

GuardInit ==
    /\ schema = MkSchema(TInt)
    /\ ns_ = ""
    /\ noUnion_ = FALSE
    /\ inNamespace_ = FALSE
    /\ os_ = <<>>
    /\ done = [n \in {} |-> ""]
    /\ doing = {}
    /\ unionNumber_ = 0
    /\ unionBranchNameMapping_ = [k \in {} |-> ""]
    /\ generatedUnionTraits_ = {}
    /\ pendingGettersAndSetters = <<>>
    /\ pendingConstructors = <<>>
    /\ stack = <<>>
    /\ ret = ""
    /\ phase = "start"
    /\ flushed = 0
    /\ \E file \in Files \cup {Absent} :
         run = [op |-> "main", runs |-> 0, file |-> file, read |-> Absent,
                g |-> <<>>, h |-> <<>>, before |-> <<>>]

GuardNext ==
    \/ readGuardRun
    \/ generateGuard

GuardSpec == GuardInit /\ [][GuardNext]_vars

\* file has a line '#ifndef token' and after it a line '#define token'
HasGuardPair(file, token) ==
    /\ file.exists
    /\ \E i, j \in 1..Len(file.lines) :
         /\ i < j
         /\ trim(file.lines[i]) = <<"#ifndef", " ">> \o token
         /\ trim(file.lines[j]) = <<"#define", " ">> \o token

FreshGuards == {guard(r) : r \in 0..MaxRandom}

\* C12: readGuard returns a token only when the existing file has a line
\* '#ifndef token' followed by a matching '#define token', and returns the
\* empty string in every other case (no #ifndef, a different or no #define,
\* no file); generate() then writes a fresh guard, and otherwise the token
\* read, so that a second run over the file the first run wrote writes the
\* guard that file has.
C12_GuardReuse ==
    /\ run.op = "generate" /\ run.g # <<>> => HasGuardPair(run.read, run.g)
    /\ run.op = "main" /\ run.runs >= 1 =>
         /\ run.g = <<>> => run.h \in FreshGuards
         /\ run.g # <<>> => run.h = run.g
    /\ run.op = "main" /\ run.runs >= 2 => run.h = run.before

\* C12, the part about regeneration: a second run over the file the first
\* run wrote writes the guard that file has.
C12_RegenerationKeepsGuard ==
    run.op = "main" /\ run.runs >= 2 => run.h = run.before /\ run.g = run.before

-----------------------------------------------------------------------------
(* The command line (section 2).                                            *)

MaxArgs == 4      \* argv holds at most MaxArgs arguments after the program name

\* struct ProgramOptions with its defaults
ProgramOptions ==
    [helpRequested |-> FALSE, versionRequested |-> FALSE, noUnionTypedef |-> FALSE,
     includePrefix |-> "avro", nameSpace |-> "", inputFile |-> "", outputFile |-> ""]

\* the option member an argument that takes a value sets
valueOption(arg) ==
    CASE arg \in {"-p", "--include-prefix"} -> "includePrefix"
      [] arg \in {"-n", "--namespace"} -> "nameSpace"
      [] arg \in {"-i", "--input"} -> "inputFile"
      [] arg \in {"-o", "--output"} -> "outputFile"
      [] OTHER -> ""

\* static bool parseArgs(int argc, char **argv, ProgramOptions &opts), from
\* argument i on (argv[0] left out, so i counts from 1)
RECURSIVE parseArgs(_, _, _)
parseArgs(argv, i, opts) ==
    IF i > Len(argv) THEN [ok |-> TRUE, opts |-> opts]
    ELSE LET arg == argv[i]
         IN IF arg \in {"-h", "--help"}
            THEN [ok |-> TRUE, opts |-> [opts EXCEPT !.helpRequested = TRUE]]
            ELSE IF arg \in {"-V", "--version"}
            THEN [ok |-> TRUE, opts |-> [opts EXCEPT !.versionRequested = TRUE]]
            ELSE IF arg \in {"-U", "--no-union-typedef"}
            THEN parseArgs(argv, i + 1, [opts EXCEPT !.noUnionTypedef = TRUE])
            ELSE IF valueOption(arg) # "" /\ i + 1 <= Len(argv)
            THEN parseArgs(argv, i + 2, [opts EXCEPT ![valueOption(arg)] = argv[i + 1]])
            ELSE [ok |-> FALSE, opts |-> opts]

\* how a run of main ends: the exit status, whether the usage text was
\* printed, where the schema was read from and where the header was written
Exit(status, usage, opts, in, out) ==
    [op |-> "exit", status |-> status, usage |-> usage, opts |-> opts,
     in |-> in, out |-> out]

\* mainResult without the test of lines 982-986
mainResultFilesOptional(argv, schemaOk) ==
    LET parsed == parseArgs(argv, 1, ProgramOptions)
        opts == parsed.opts
        in == IF opts.inputFile # "" THEN "file" ELSE "stdin"
        out == IF opts.outputFile # "" THEN "file" ELSE "stdout"
    IN IF ~parsed.ok THEN Exit(1, TRUE, opts, "none", "none")
       ELSE IF opts.helpRequested THEN Exit(0, TRUE, opts, "none", "none")
       ELSE IF opts.versionRequested THEN Exit(0, FALSE, opts, "none", "none")
       ELSE IF ~schemaOk THEN Exit(1, FALSE, opts, in, "none")
       ELSE Exit(0, FALSE, opts, in, out)

\* int main(int argc, char **argv); schemaOk: compileJsonSchema does not throw
mainResult(argv, schemaOk) ==
    LET parsed == parseArgs(argv, 1, ProgramOptions)
        opts == parsed.opts
        in == IF opts.inputFile # "" THEN "file" ELSE "stdin"
        out == IF opts.outputFile # "" THEN "file" ELSE "stdout"
    IN IF ~parsed.ok THEN Exit(1, TRUE, opts, "none", "none")
       ELSE IF opts.helpRequested THEN Exit(0, TRUE, opts, "none", "none")
       ELSE IF opts.versionRequested THEN Exit(0, FALSE, opts, "none", "none")
       ELSE IF opts.inputFile = "" \/ opts.outputFile = ""
       THEN Exit(1, TRUE, opts, "none", "none")
       ELSE IF ~schemaOk THEN Exit(1, FALSE, opts, in, "none")
       ELSE Exit(0, FALSE, opts, in, out)

\* the arguments of a command line
Args == {"-h", "-V", "-U", "-p", "-n", "-i", "-o", "--output", "f", "-x"}

CommandLines == UNION {[1..k -> Args] : k \in 0..MaxArgs}

main ==
    /\ run.op = "main"
    /\ run' = [mainResult(run.argv, run.schemaOk) EXCEPT !.op = "exit"]
               @@ [argv |-> run.argv, schemaOk |-> run.schemaOk]
    /\ UNCHANGED genVars

MainInit ==
    /\ schema = MkSchema(TInt)
    /\ ns_ = ""
    /\ noUnion_ = FALSE
    /\ inNamespace_ = FALSE
    /\ os_ = <<>>
    /\ done = [n \in {} |-> ""]
    /\ doing = {}
    /\ unionNumber_ = 0
    /\ unionBranchNameMapping_ = [k \in {} |-> ""]
    /\ generatedUnionTraits_ = {}
    /\ pendingGettersAndSetters = <<>>
    /\ pendingConstructors = <<>>
    /\ stack = <<>>
    /\ ret = ""
    /\ phase = "start"
    /\ flushed = 0
    /\ \E argv \in CommandLines, schemaOk \in BOOLEAN :
         run = [op |-> "main", argv |-> argv, schemaOk |-> schemaOk]

MainNext ==
    \/ main

MainSpec == MainInit /\ [][MainNext]_vars

\* the run was asked for neither the help nor the version, its command line
\* parsed, and it names no input file or no output file
FileLeftOut ==
    /\ run.op = "exit"
    /\ parseArgs(run.argv, 1, ProgramOptions).ok
    /\ ~run.opts.helpRequested /\ ~run.opts.versionRequested
    /\ run.opts.inputFile = "" \/ run.opts.outputFile = ""

\* C13 as stated: a run that names no input file reads the schema from the
\* standard input, a run that names no output file writes to the standard
\* output, and with a schema that compiles such a run exits 0 without a usage
\* error.
C13_StandardStreams ==
    FileLeftOut /\ run.schemaOk =>
        /\ run.status = 0
        /\ ~run.usage
        /\ run.opts.inputFile = "" => run.in = "stdin"
        /\ run.opts.outputFile = "" => run.out = "stdout"

\* C13 as the code has it: a run that names no input file or no output file
\* prints the usage text and exits 1, reading and writing nothing; a run that
\* names both reads the one and, the schema compiling, writes the other and
\* exits 0.
C13_FilesRequired ==
    /\ FileLeftOut =>
         run.status = 1 /\ run.usage /\ run.in = "none" /\ run.out = "none"
    /\ (/\ run.op = "exit"
        /\ parseArgs(run.argv, 1, ProgramOptions).ok
        /\ ~run.opts.helpRequested /\ ~run.opts.versionRequested
        /\ ~FileLeftOut) =>
         /\ run.in = "file"
         /\ run.status = (IF run.schemaOk THEN 0 ELSE 1)
         /\ run.out = (IF run.schemaOk THEN "file" ELSE "none")

\* C13 witness: the command line names an output file and no input file, the
\* schema on the standard input would compile, and the run exits 1.
C13_Witness ==
    /\ run.op = "exit"
    /\ run.argv = <<"-U", "-o", "f">>
    /\ run.schemaOk
    /\ run.status = 1
    /\ run.usage

-----------------------------------------------------------------------------
(* Properties of the generator, continued.                                  *)

\* the items a step appends to the output
Appended == {p \in (Len(os_) + 1)..Len(os_') : TRUE}

\* the running call is generateDeclaration on a named type, or the function
\* generateDeclaration returns the result of for a named type
DeclaringNamedType ==
    /\ stack # <<>>
    /\ top.fn = "generateDeclaration" \/ top.decl
    /\ typeOf(resolveSymbol(top.n)) \in NamedTypes

\* C14: generateDeclaration, reached for a named type because an enclosing
\* array, map or union is in progress, appends at most a forward declaration
\* of the type and never a full declaration: no step of it appends a struct or
\* an enum class body.
C14_ForwardDeclarationsOnly ==
    [][DeclaringNamedType => \A p \in Appended : os_'[p].t = "forward"]_vars

\* the union structs in the output
UnionItems == {p \in Positions : os_[p].t = "union"}

\* the names the branches of the union struct at position p come to
\* (cppNameOf of each branch), and its accessors among the pending ones
NamesAt(p) == [i \in 1..os_[p].idx |-> cppNameOf(leafAt(os_[p].node, i - 1))]
AccessorsOf(p) ==
    {k \in 1..Len(pendingGettersAndSetters) :
        pendingGettersAndSetters[k].structName = os_[p].name}

Distinct(names) == \A i, j \in 1..Len(names) : i # j => names[i] # names[j]

Suffixed(name, k) == name \o "_" \o ToString(k)

\* The Branch enumerators of the union struct at position p: one for each
\* branch, pairwise distinct; the enumerator of a branch is its name after
\* reserved-word escaping, or, when an earlier enumerator has that name, the
\* name with the least suffix _2, _3, ... that no earlier enumerator has.
BranchEnumeratorsRight(p) ==
    LET names == NamesAt(p)
        branch == os_[p].aux
    IN /\ Len(branch) = Len(names)
       /\ Distinct(branch)
       /\ \A i \in 1..Len(names) :
            LET used == {branch[j] : j \in 1..(i - 1)}
                d == decorate(names[i])
            IN IF d \notin used THEN branch[i] = d
               ELSE \E k \in 2..(Len(names) + 1) :
                       /\ branch[i] = Suffixed(d, k)
                       /\ \A m \in 2..(k - 1) : Suffixed(d, m) \in used

\* the accessors of the union struct at position p: one for each branch that
\* is not null, named get_/set_ with the name of the branch, with its index
AccessorsRight(p) ==
    /\ \A k \in AccessorsOf(p) :
          LET a == pendingGettersAndSetters[k]
          IN /\ a.idx < os_[p].idx
             /\ typeOf(leafAt(os_[p].node, a.idx)) # "AVRO_NULL"
             /\ a.name = NamesAt(p)[a.idx + 1]
    /\ \A i \in 1..os_[p].idx :
          typeOf(leafAt(os_[p].node, i - 1)) # "AVRO_NULL" =>
             \E k \in AccessorsOf(p) : pendingGettersAndSetters[k].idx = i - 1

AccessorNamesDistinct(p) ==
    \A k, m \in AccessorsOf(p) :
        k # m => pendingGettersAndSetters[k].name # pendingGettersAndSetters[m].name

\* C15 as stated: in every emitted union struct the Branch enumerators and
\* the get_/set_ accessor names are pairwise distinct, a name that collides
\* after reserved-word escaping getting the suffix _2, _3, ... until it is
\* unused, and the enumerator of branch i has the value i.
C15_BranchNamesDistinct ==
    \A p \in UnionItems :
        BranchEnumeratorsRight(p) /\ AccessorsRight(p) /\ AccessorNamesDistinct(p)

\* C15 as the code has it: the Branch enumerators are pairwise distinct by
\* the suffix rule and the enumerator of branch i has the value i; the
\* accessors are named with the name of the branch as it is, neither escaped
\* nor suffixed, so they are distinct where the names of the branches are.
C15_BranchEnumeratorsDistinct ==
    \A p \in UnionItems :
        /\ BranchEnumeratorsRight(p)
        /\ AccessorsRight(p)
        /\ Distinct(NamesAt(p)) => AccessorNamesDistinct(p)

\* C15 witness: a union struct is out whose third branch collided with the
\* first and found the suffix _2 taken.
C15_Witness ==
    \E p \in UnionItems : os_[p].aux = <<"int_", "int__2", "int__3">>

\* the positions of the union structs in the output, in output order
RECURSIVE UnionsFrom(_)
UnionsFrom(p) ==
    IF p > Len(os_) THEN <<>>
    ELSE (IF os_[p].t = "union" THEN <<p>> ELSE <<>>) \o UnionsFrom(p + 1)

\* what the union struct at position p leaves pending: an accessor entry for
\* each branch from i on that is not null, with the index of the branch ...
RECURSIVE AccessorsDue(_, _)
AccessorsDue(p, i) ==
    IF i >= os_[p].idx THEN <<>>
    ELSE (IF typeOf(leafAt(os_[p].node, i)) = "AVRO_NULL" THEN <<>>
          ELSE <<[structName |-> os_[p].name, type |-> os_[p].args[i + 1],
                  name |-> cppNameOf(leafAt(os_[p].node, i)), idx |-> i]>>)
         \o AccessorsDue(p, i + 1)

\* ... and one constructor entry, for its first branch
ConstructorDue(p) ==
    [structName |-> os_[p].name, memberName |-> os_[p].args[1],
     initMember |-> typeOf(leafAt(os_[p].node, 0)) # "AVRO_NULL"]

RECURSIVE AllAccessorsDue(_)
AllAccessorsDue(ps) ==
    IF ps = <<>> THEN <<>> ELSE AccessorsDue(Head(ps), 0) \o AllAccessorsDue(Tail(ps))

AllConstructorsDue(ps) == [k \in 1..Len(ps) |-> ConstructorDue(ps[k])]

\* the accessor definitions and the constructor definitions in the output,
\* in output order, as the pending entries they were written from
IsGetSet(it) == it.t = "getset"
IsConstructor(it) == it.t = "constructor"
AccessorsOut ==
    LET s == SelectSeq(os_, IsGetSet)
    IN [k \in 1..Len(s) |-> [structName |-> s[k].name, type |-> s[k].args[1],
                              name |-> s[k].args[2], idx |-> s[k].idx]]
ConstructorsOut ==
    LET s == SelectSeq(os_, IsConstructor)
    IN [k \in 1..Len(s) |-> [structName |-> s[k].name, memberName |-> s[k].args[1],
                              initMember |-> s[k].idx = 1]]

\* C16: every union struct in the output has left pending exactly one
\* constructor entry and one accessor entry for each branch that is not null,
\* with the index of that branch, the entries standing in the order the
\* structs were written; no pending entry is written out while the types are
\* traversed; afterwards the accessor entries are written, each once and in
\* the order of the list, after every type and before every constructor, and
\* then the constructor entries, each once and in the order of the list; a
\* finished run has written them all.
C16_DeferredQueuesFlushedOnce ==
    /\ pendingGettersAndSetters = AllAccessorsDue(UnionsFrom(1))
    /\ pendingConstructors = AllConstructorsDue(UnionsFrom(1))
    /\ IsPrefix(AccessorsOut, pendingGettersAndSetters)
    /\ IsPrefix(ConstructorsOut, pendingConstructors)
    /\ phase \in {"start", "types"} => AccessorsOut = <<>> /\ ConstructorsOut = <<>>
    /\ phase = "getters" => ConstructorsOut = <<>>
    /\ phase \in {"constructors", "traits", "finished"} =>
          AccessorsOut = pendingGettersAndSetters
    /\ phase \in {"traits", "finished"} => ConstructorsOut = pendingConstructors
    /\ \A p, q \in Positions :
          /\ os_[p].t \in {"union", "struct", "enum", "forward"} /\ os_[q].t = "getset"
                => p < q
          /\ os_[p].t = "getset" /\ os_[q].t = "constructor" => p < q

\* C16 witness: a finished run that wrote two union structs, one of them with
\* a null branch, and then every pending accessor and every pending
\* constructor.
C16_Witness ==
    /\ phase = "finished"
    /\ Len(UnionsFrom(1)) >= 2
    /\ \E p \in UnionItems : \E i \in 0..(os_[p].idx - 1) :
          typeOf(leafAt(os_[p].node, i)) = "AVRO_NULL"
    /\ Len(AccessorsOut) >= 3
    /\ Len(ConstructorsOut) = Len(UnionsFrom(1))

\* the records whose names stand in the type written for node n, when n is
\* not itself a record: the element type of an array, the value type of a
\* map, through any depth of containers.  The type written for a union is
\* the name of its struct, which names no record.
RECURSIVE RecordsInside(_)
RecordsInside(n) ==
    LET nn == resolveSymbol(n)
    IN CASE typeOf(nn) = "AVRO_RECORD" -> {nn}
         [] typeOf(nn) = "AVRO_ARRAY" -> RecordsInside(leafAt(nn, 0))
         [] typeOf(nn) = "AVRO_MAP" -> RecordsInside(leafAt(nn, 1))
         [] OTHER -> {}

\* the name the record r is declared by
RecordName(r) == decorateName(schema[r].name)

BodyBefore(r, p) ==
    \E q \in 1..(p - 1) : os_[q].t = "struct" /\ os_[q].name = RecordName(r)
DeclaredBefore(r, p) ==
    \E q \in 1..(p - 1) :
        os_[q].t \in {"struct", "forward"} /\ os_[q].name = RecordName(r)

\* the fields of the struct, the branches of the union, at position p
LeavesAt(p) == {leafAt(os_[p].node, i) : i \in 0..(leaves(os_[p].node) - 1)}

\* C17: wherever the output stands, every record named in a struct or a
\* union struct already written (as the type of a field, the element type of
\* a container, the type of a union accessor) has its struct body or a
\* forward declaration 'struct <name>;' earlier in the output, and a record
\* that is the type of a field has its struct body before the struct with
\* that field.
C17_DeclaredBeforeUse ==
    \A p \in Positions :
        /\ os_[p].t \in {"struct", "union"} =>
              \A l \in LeavesAt(p) : \A r \in RecordsInside(l) : DeclaredBefore(r, p)
        /\ os_[p].t = "struct" =>
              \A l \in LeavesAt(p) :
                  typeOf(resolveSymbol(l)) = "AVRO_RECORD" => BodyBefore(resolveSymbol(l), p)

\* C17 witness: a struct is out that names, inside a container or through a
\* union accessor, a record whose body is not yet out: only its forward
\* declaration stands before the use.
C17_Witness ==
    \E p \in Positions :
        /\ os_[p].t \in {"struct", "union"}
        /\ \E l \in LeavesAt(p) : \E r \in RecordsInside(l) :
              DeclaredBefore(r, p) /\ ~BodyBefore(r, p)

\* the nodes reachable from node n, symbolic references followed
RECURSIVE ReachableFrom(_)
ReachableFrom(n) ==
    IF typeOf(n) = "AVRO_SYMBOLIC" THEN {n, resolveSymbol(n)}
    ELSE {n} \cup UNION {ReachableFrom(leafAt(n, i)) : i \in 0..(leaves(n) - 1)}

\* generateType(root) has returned
TypesGenerated == phase \in {"getters", "constructors", "traits", "finished"}

\* the key nodes of the maps: leaf 0 of a map, its value type being leaf 1
MapKeys == {leafAt(m, 0) : m \in {k \in ReachableFrom(1) : typeOf(k) = "AVRO_MAP"}}

NoEmptyNameInDone == \A n \in DOMAIN done : done[n] # ""

\* C18 as stated: once generateType(root) has returned, every node reachable
\* from the root that is not a symbolic reference has a name in done, and the
\* name is not empty; and no lookup done[n], of the type stage or of the
\* codec stage, ever puts an empty name into done.
C18_EveryNodeDone ==
    /\ TypesGenerated =>
          \A n \in ReachableFrom(1) :
              typeOf(n) # "AVRO_SYMBOLIC" => n \in DOMAIN done /\ done[n] # ""
    /\ NoEmptyNameInDone

\* C18 as the code has it: the same of every node but the key node of a map,
\* which the generator never visits and never looks up.
C18_DoneComplete ==
    /\ TypesGenerated =>
          \A n \in ReachableFrom(1) \ MapKeys :
              typeOf(n) # "AVRO_SYMBOLIC" => n \in DOMAIN done /\ done[n] # ""
    /\ TypesGenerated => \A n \in MapKeys : n \notin DOMAIN done
    /\ NoEmptyNameInDone

\* C18 witness: the codecs are out for a schema with a union whose struct was
\* written by the visit that found the union in progress (the forward
\* declaration of its branch stands before the struct), and the union has the
\* name of that struct in done.
C18_Witness ==
    /\ phase = "finished"
    /\ \E p \in UnionItems : \E q \in 1..(p - 1) :
          /\ os_[q].t = "forward"
          /\ os_[q].node \in {resolveSymbol(l) : l \in LeavesAt(p)}
          /\ os_[p].node \in DOMAIN done
          /\ done[os_[p].node] = os_[p].name
          /\ \E c \in Positions : os_[c].t = "unioncodec" /\ os_[c].node = os_[p].node

\* the frames that put their node into doing and have not yet taken it out:
\* doGenerateType of an array or a map between insert and erase, and
\* generateUnionType in the loop of its else branch
Expanding(f) ==
    \/ f.fn = "doGenerateType" /\ f.pc = 1
    \/ f.fn = "generateUnionType" /\ f.pc = 1 /\ ~f.re
\* the frames that found their node in doing
Reentered(f) ==
    \/ f.fn = "doGenerateType" /\ f.pc = 2
    \/ f.fn = "generateUnionType" /\ f.pc = 1 /\ f.re

Frames == 1..Len(stack)

\* C19: doing holds exactly the nodes of the frames that are expanding the
\* children of their node, one frame for each node; a frame that found its
\* node in doing stands above the frame that inserted it and leaves doing as
\* it is; and doing is empty once generateType(root) has returned.
C19_DoingBalanced ==
    /\ doing = {stack[k].n : k \in {j \in Frames : Expanding(stack[j])}}
    /\ \A k, m \in Frames :
          Expanding(stack[k]) /\ Expanding(stack[m]) /\ k # m => stack[k].n # stack[m].n
    /\ \A k \in Frames :
          Reentered(stack[k]) =>
             \E m \in (k + 1)..Len(stack) :
                 Expanding(stack[m]) /\ stack[m].n = stack[k].n
    /\ stack = <<>> => doing = {}

\* C19 witness: a frame that found its node in doing is on the stack, two
\* nodes being in doing.
C19_Witness ==
    /\ \E k \in Frames : Reentered(stack[k])
    /\ Cardinality(doing) >= 2

====
